---------------------------- MODULE Spec2Model ----------------------------
(***************************************************************************)
(* Model of backend/app/services/prayer_service.py (PrayerService).        *)
(*                                                                         *)
(* Number representation.  The service computes in IEEE doubles; the model *)
(* computes in fixed point on integers that fit 32 bits:                   *)
(*   angles            millidegrees            (mdeg,  360 deg = 360000)   *)
(*   sines, ratios     millionths              (One = 1000000 is 1.0)      *)
(*   decimal hours     milli-minutes           (mmin,  1 h = 60000)        *)
(* so that  degrees/15 hours  is  4 mmin per mdeg  and  m/60 hours  is     *)
(* 1000*m mmin, both exact.                                                *)
(*                                                                         *)
(* The arithmetic helpers are functions on Int, not operators: a function  *)
(* is applied to the value of its argument, as a Python call is.  A value  *)
(* used more than once is passed on as an argument rather than named in a  *)
(* LET, which keeps the expression TLC expands for each action small.      *)
(***************************************************************************)
EXTENDS Integers, Sequences, FiniteSets, TLC

One == 1000 * 1000

HourMmin == 60 * 1000

DayMmin == 24 * HourMmin

Abs(x) == IF x < 0 THEN -x ELSE x

Sign(x) == IF x < 0 THEN -1 ELSE IF x > 0 THEN 1 ELSE 0

(* a * b / One for |a|, |b| up to about 1.4 * One, by thousands so that no *)
(* intermediate product leaves 32 bits.                                    *)
MulP[a \in Int, b \in Int] ==
    ((a \div 1000) * b) \div 1000 + ((a % 1000) * b) \div One

Mul[a \in Int, b \in Int] == Sign(a) * Sign(b) * MulP[Abs(a), Abs(b)]

(* num * One / den for 0 <= num < den <= 2 * One: long division by         *)
(* thousands.                                                              *)
DivP[num \in Int, den \in Int] ==
    LET q1 == (num * 1000) \div den
        r1 == (num * 1000) % den
        q2 == (r1 * 1000) \div den
    IN  q1 * 1000 + q2

(* math.radians on an angle of at most 45 degrees: mdeg -> radians * One.  *)
Radians[mdeg \in Int] == (mdeg * 17453) \div 1000 + (mdeg * 293) \div One

(* Taylor polynomials on [0, pi/4], where the omitted terms are below      *)
(* 1/One, in x and x2 = x * x.                                             *)
SinSeries[x \in Int, x2 \in Int] ==
    LET x3 == MulP[x2, x]
        x5 == MulP[x3, x2]
        x7 == MulP[x5, x2]
    IN  x - x3 \div 6 + x5 \div 120 - x7 \div 5040

CosSeries[x2 \in Int] ==
    LET x4 == MulP[x2, x2]
        x6 == MulP[x4, x2]
        x8 == MulP[x4, x4]
    IN  One - x2 \div 2 + x4 \div 24 - x6 \div 720 + x8 \div 40320

SinSmall[mdeg \in Int] ==
    LET x == Radians[mdeg] IN SinSeries[x, MulP[x, x]]

CosSmall[mdeg \in Int] ==
    LET x == Radians[mdeg] IN CosSeries[MulP[x, x]]

(* sin on the first quadrant, 0..90000 mdeg.                               *)
SinQ[mdeg \in Int] ==
    IF mdeg <= 45000 THEN SinSmall[mdeg] ELSE CosSmall[90000 - mdeg]

(* math.sin(math.radians(a)) for any angle a in mdeg, folded onto the      *)
(* first quadrant.                                                         *)
Sin[a \in Int] ==
    LET r == a % 360000
    IN  (IF r <= 180000 THEN 1 ELSE -1)
        * SinQ[IF r <= 90000 THEN r
               ELSE IF r <= 180000 THEN 180000 - r
               ELSE IF r <= 270000 THEN r - 180000
               ELSE 360000 - r]

(* math.cos(math.radians(a)).                                              *)
Cos[a \in Int] == Sin[a + 90000]

RECURSIVE Bisect(_, _, _, _)
(* The largest t in lo..hi-1 with Below(t), for Below true at lo and       *)
(* monotone: the inverse functions are found by search on the forward one. *)
Bisect(Below(_), lo, hi, n) ==
    IF n = 0 \/ hi - lo <= 1 THEN lo
    ELSE LET Halve[mid \in Int] ==
                 IF Below(mid) THEN Bisect(Below, mid, hi, n - 1)
                 ELSE Bisect(Below, lo, mid, n - 1)
         IN  Halve[(lo + hi) \div 2]

(* math.degrees(math.acos(c)) for c in -One..One, in mdeg 0..180000.       *)
Acos[c \in Int] ==
    IF c >= One THEN 0
    ELSE IF c <= -One THEN 180000
    ELSE LET Below(t) == Cos[t] >= c
         IN  Bisect(Below, 0, 180001, 18)

(* math.degrees(math.asin(s)) for s in -One..One, in mdeg -90000..90000.   *)
Asin[s \in Int] == 90000 - Acos[s]

(* math.degrees(math.atan(v)) for a ratio v >= 0 given as num/den.         *)
AtanRatio[num \in Int, den \in Int] ==
    LET Below(t) == Mul[Sin[t], den] <= Mul[Cos[t], num]
    IN  Bisect(Below, 0, 90001, 17)

(* math.degrees(math.atan2(y, x)) in mdeg, in (-180000, 180000].           *)
Atan2[y \in Int, x \in Int] ==
    IF y = 0 THEN (IF x >= 0 THEN 0 ELSE 180000)
    ELSE Sign(y) * ((IF x >= 0 THEN 0 ELSE 180000)
                    + (IF x >= 0 THEN 1 ELSE -1) * AtanRatio[Abs(y), Abs(x)])

(***************************************************************************)
(* Python values.  A str is the sequence of its characters; a dict is the  *)
(* sequence of its <<key, value>> items in insertion order.  None, where a *)
(* str is expected, is the one-element sequence None (no str: its element  *)
(* is not a character); an Optional[Dict] argument is <<>> for None and    *)
(* <<d>> for the dict d.                                                   *)
(***************************************************************************)
None == <<"None">>

Digit(n) == CASE n = 0 -> "0" [] n = 1 -> "1" [] n = 2 -> "2" [] n = 3 -> "3"
              [] n = 4 -> "4" [] n = 5 -> "5" [] n = 6 -> "6" [] n = 7 -> "7"
              [] n = 8 -> "8" [] n = 9 -> "9"

DigitChars == {"0", "1", "2", "3", "4", "5", "6", "7", "8", "9"}

DigitValue(ch) == CHOOSE n \in 0..9 : Digit(n) = ch

RECURSIVE Decimal(_)
(* str(n) for n >= 0.                                                      *)
Decimal(n) == IF n < 10 THEN <<Digit(n)>>
              ELSE Decimal(n \div 10) \o <<Digit(n % 10)>>

RECURSIVE ZeroPad(_, _)
(* The format spec 0<width>d on the digits of a number >= 0.               *)
ZeroPad(s, width) == IF Len(s) >= width THEN s ELSE ZeroPad(<<"0">> \o s, width)

DictKeys(d) == [i \in 1..Len(d) |-> d[i][1]]

DictHas(d, k) == \E i \in 1..Len(d) : d[i][1] = k

DictGet(d, k) == d[CHOOSE i \in 1..Len(d) : d[i][1] = k][2]

DictGetDefault(d, k, default) == IF DictHas(d, k) THEN DictGet(d, k) ELSE default

(* d[k] = v: an existing key keeps its place, a new key goes last.         *)
DictSet(d, k, v) ==
    IF DictHas(d, k)
    THEN [i \in 1..Len(d) |-> IF d[i][1] = k THEN <<k, v>> ELSE d[i]]
    ELSE Append(d, <<k, v>>)

(***************************************************************************)
(* PrayerService.CALCULATION_METHODS: angles in mdeg, interval in minutes. *)
(***************************************************************************)
CALCULATION_METHODS ==
    <<
      <<"MuslimWorldLeague",
        << <<"name", "Muslim World League">>,
           <<"fajr_angle", 18000>>, <<"isha_angle", 17000>> >> >>,
      <<"Egyptian",
        << <<"name", "Egyptian General Authority of Survey">>,
           <<"fajr_angle", 19500>>, <<"isha_angle", 17500>> >> >>,
      <<"UmmAlQura",
        << <<"name", "Umm al-Qura University, Makkah">>,
           <<"fajr_angle", 18500>>, <<"isha_interval", 90>> >> >>,
      <<"Karachi",
        << <<"name", "University of Islamic Sciences, Karachi">>,
           <<"fajr_angle", 18000>>, <<"isha_angle", 18000>> >> >>,
      <<"Jafari",
        << <<"name", "Shia Ithna-Ashari, Leva Institute, Qum">>,
           <<"fajr_angle", 16000>>, <<"isha_angle", 14000>>,
           <<"maghrib_angle", 4000>> >> >>,
      <<"ISNA",
        << <<"name", "Islamic Society of North America">>,
           <<"fajr_angle", 15000>>, <<"isha_angle", 15000>> >> >>,
      <<"Turkey",
        << <<"name", "Diyanet Isleri Baskanligi, Turkey">>,
           <<"fajr_angle", 18000>>, <<"isha_angle", 17000>> >> >>,
      <<"Kuwait",
        << <<"name", "Kuwait">>,
           <<"fajr_angle", 18000>>, <<"isha_angle", 17500>> >> >>,
      <<"Qatar",
        << <<"name", "Qatar">>,
           <<"fajr_angle", 18000>>, <<"isha_interval", 90>> >> >>,
      <<"Singapore",
        << <<"name", "Singapore">>,
           <<"fajr_angle", 20000>>, <<"isha_angle", 18000>> >> >>
    >>

PRAYER_NAMES == <<"imsak", "fajr", "sunrise", "dhuhr", "asr", "maghrib", "isha">>

(***************************************************************************)
(* Solar ephemeris.  A date is [year, month, day].                         *)
(***************************************************************************)

(* The same without the century term b (the Julian calendar's count, in    *)
(* which every fourth year is leap).                                       *)
JulianDate2NoCentury(date) ==
    LET shift == date.month <= 2
        year  == IF shift THEN date.year - 1 ELSE date.year
        month == IF shift THEN date.month + 12 ELSE date.month
    IN  2 * ((1461 * (year + 4716)) \div 4
             + (306001 * (month + 1)) \div 10000
             + date.day - 13)
        - 3049

(* _calculate_julian_date, doubled: every Julian date of a calendar day    *)
(* ends in .5, so 2 * jd is the integer kept.                              *)
JulianDate2(date) ==
    LET shift == date.month <= 2
        year  == IF shift THEN date.year - 1 ELSE date.year
        month == IF shift THEN date.month + 12 ELSE date.month
        a     == year \div 100
        b     == 2 - a + a \div 4
    IN  2 * ((1461 * (year + 4716)) \div 4
             + (306001 * (month + 1)) \div 10000
             + date.day + b)
        - 3049

(* d = julian_date - 2451545.0, doubled.                                   *)
DaysSinceEpoch2(jd2) == jd2 - 4903090

(* g = 357.529 + 0.98560028 * d, in mdeg and reduced modulo 360 degrees    *)
(* (sin and the final reduction of EqT take it modulo 360).                *)
MeanAnomaly(d2) ==
    (357529 + (985 * d2) \div 2 + (15007 * d2) \div 50000) % 360000

(* q = 280.459 + 0.98564736 * d, likewise.                                 *)
MeanLongitude(d2) ==
    (280459 + (985 * d2) \div 2 + (8092 * d2) \div 25000) % 360000

(* L = q + 1.915 sin g + 0.020 sin 2g.                                     *)
EclipticLongitude(d2) ==
    LET g == MeanAnomaly(d2)
    IN  MeanLongitude(d2) + (1915 * Sin[g]) \div One
            + (20 * Sin[2 * g]) \div One

(* _sun_declination, in mdeg.                                              *)
SunDeclination(jd2) ==
    LET d2 == DaysSinceEpoch2(jd2)
        e  == 23439 - (18 * d2) \div 100000
    IN  Asin[Mul[Sin[e], Sin[EclipticLongitude(d2)]]]

(* RA = atan2(cos(23.439) sin L, cos L); the obliquity here is the         *)
(* constant 23.439.                                                        *)
RightAscension[L \in Int] == Atan2[Mul[Cos[23439], Sin[L]], Cos[L]]

(* EqT = EqT - 360 * floor(EqT / 360); if EqT > 180: EqT -= 360.           *)
ReduceHalfTurn[EqT \in Int] ==
    LET e == EqT - 360000 * (EqT \div 360000)
    IN  IF e > 180000 THEN e - 360000 ELSE e

(* The same with the half turn itself taken down (>= for >).               *)
EqtMinutesInclusive(EqT) ==
    LET e == EqT - 360000 * (EqT \div 360000)
    IN  (IF e >= 180000 THEN e - 360000 ELSE e) * 4

(* The end of _equation_of_time, from  EqT = q - RA  in mdeg to the value  *)
(* returned in mmin.                                                       *)
EqtMinutes(EqT) == ReduceHalfTurn[EqT] * 4

(* _equation_of_time: q - RA reduced into (-180, 180] degrees, times 4     *)
(* minutes per degree; in mmin that is 4 per mdeg.                         *)
EquationOfTime(jd2) ==
    LET d2 == DaysSinceEpoch2(jd2)
    IN  EqtMinutes(MeanLongitude(d2) - RightAscension[EclipticLongitude(d2)])

(***************************************************************************)
(* Prayer times, in mmin since local midnight (not yet reduced modulo a    *)
(* day).                                                                   *)
(***************************************************************************)

(* noon with the longitude term added (west taken for east).               *)
SolarNoonWestPositive(longitude, eqt, tz) ==
    12 * HourMmin + tz + longitude * 4 - eqt

(* noon of _calculate_time:                                                *)
(* 12 + timezone_offset - longitude / 15 - equation_of_time / 60.          *)
SolarNoon(longitude, eqt, tz) == 12 * HourMmin + tz - longitude * 4 - eqt

(* cos_h of _calculate_time after its clamp to [-1, 1].  In doubles the    *)
(* denominator is never exactly zero (cos(radians(90)) is 6.1e-17), so a   *)
(* zero denominator here stands for that tiny positive number.             *)
ClampedRatio[num \in Int, den \in Int] ==
    LET n == IF den < 0 THEN -num ELSE num
        d == Abs(den)
    IN  IF n >= d THEN One
        ELSE IF n <= -d THEN -One
        ELSE Sign(n) * DivP[Abs(n), d]

(* hour_angle of _calculate_time: degrees(acos(cos_h)) / 15, in mmin.      *)
HourAngle(latitude, declination, angle) ==
    Acos[ClampedRatio[Cos[angle] - Mul[Sin[latitude], Sin[declination]],
                      Mul[Cos[latitude], Cos[declination]]]] * 4

(* _calculate_time: noon -/+ the hour angle of the given zenith angle.     *)
CalculateTime(latitude, declination, angle, eqt, longitude, tz, reverse) ==
    IF reverse
    THEN SolarNoon(longitude, eqt, tz)
             + HourAngle(latitude, declination, angle)
    ELSE SolarNoon(longitude, eqt, tz)
             - HourAngle(latitude, declination, angle)

(* math.degrees(math.atan(num / den)) for a ratio of either sign.          *)
AtanSigned[num \in Int, den \in Int] ==
    (IF (num < 0) # (den < 0) THEN -1 ELSE 1) * AtanRatio[Abs(num), Abs(den)]

(* angle of _calculate_asr: atan(1 / (factor + tan|lat - dec|)).  With     *)
(* tan = sin/cos the ratio is cos / (factor * cos + sin).                  *)
AsrAngle(latitude, declination, factor) ==
    LET x == Abs(latitude - declination)
    IN  AtanSigned[Cos[x], factor * Cos[x] + Sin[x]]

(* _calculate_asr: the time of zenith angle 90 - angle after noon.         *)
CalculateAsr(latitude, declination, eqt, longitude, tz, factor) ==
    CalculateTime(latitude, declination,
                  90000 - AsrAngle(latitude, declination, factor), eqt,
                  longitude, tz, TRUE)

(* time_value % 24 of _format_time.  Python takes the remainder of the     *)
(* division (fmod) and adds 24 to a negative one, in doubles: for a        *)
(* negative time_value nearer to zero than half the spacing of the doubles *)
(* at 24 (2^-49 h) the sum is 24.0.  The fixed point shows such a double   *)
(* as 0; below tells that time_value is one.                               *)
Mod24(time_value, below) ==
    IF below /\ time_value = 0 THEN DayMmin ELSE time_value % DayMmin

(* _format_time: modulo 24 h, int() of the hours, int() of the remaining   *)
(* minutes, printed as two zero-padded numbers around a colon.             *)
FormatTime(time_value, below) ==
    LET t       == Mod24(time_value, below)
        hours   == t \div HourMmin
        minutes == (t - hours * HourMmin) \div 1000
    IN  ZeroPad(Decimal(hours), 2) \o <<":">> \o ZeroPad(Decimal(minutes), 2)


(* date.isoformat(): YYYY-MM-DD.                                           *)
IsoFormat(date) ==
    ZeroPad(Decimal(date.year), 4) \o <<"-">> \o ZeroPad(Decimal(date.month), 2)
        \o <<"-">> \o ZeroPad(Decimal(date.day), 2)

(* CALCULATION_METHODS.get(method, CALCULATION_METHODS["Egyptian"]).       *)
MethodParams(methods, method) ==
    DictGetDefault(methods, method, DictGet(methods, "Egyptian"))

(* times["imsak"] = times["fajr"] - (10 / 60.0), dropping the division     *)
(* (ten hours for ten minutes).                                            *)
ImsakTimeUndivided(fajr) == fajr - 10 * HourMmin

(* times["imsak"] = times["fajr"] - (10 / 60.0).                           *)
ImsakTime(fajr) == fajr - 10 * 1000

(* times["isha"] = times["maghrib"] + (interval / 60.0), dropping the      *)
(* division (the interval taken for hours).                                *)
IshaAfterMaghribUndivided(maghrib, interval) == maghrib + interval * HourMmin

(* times["isha"] = times["maghrib"] + (interval / 60.0).                   *)
IshaAfterMaghrib(maghrib, interval) == maghrib + interval * 1000

(* The local dict times once fajr and maghrib are known: sunrise, dhuhr,   *)
(* asr and isha as calculate_prayer_times assigns them, isha and imsak     *)
(* read back from times["maghrib"] and times["fajr"]; the items are in the *)
(* order of the assignments.                                               *)
TimesDict(method_params, latitude, longitude, tz, dec, eqt, fajr, maghrib) ==
    << <<"fajr", fajr>>,
       <<"sunrise",
         CalculateTime(latitude, dec, 90833, eqt, longitude, tz, FALSE)>>,
       <<"dhuhr", 12 * HourMmin + tz - longitude * 4 - eqt>>,
       <<"asr", CalculateAsr(latitude, dec, eqt, longitude, tz, 1)>>,
       <<"maghrib", maghrib>>,
       <<"isha",
         IF DictHas(method_params, "isha_interval")
         THEN IshaAfterMaghrib(maghrib,
                               DictGet(method_params, "isha_interval"))
         ELSE CalculateTime(latitude, dec,
                            90000 + DictGetDefault(method_params,
                                                   "isha_angle", 17000),
                            eqt, longitude, tz, TRUE)>>,
       <<"imsak", ImsakTime(fajr)>> >>

(* times["fajr"].                                                          *)
FajrTime(method_params, latitude, longitude, tz, dec, eqt) ==
    CalculateTime(latitude, dec,
                  90000 + DictGetDefault(method_params, "fajr_angle", 18000),
                  eqt, longitude, tz, FALSE)

(* times["maghrib"]: with maghrib_angle the call passes no reverse=True.   *)
MaghribTime(method_params, latitude, longitude, tz, dec, eqt) ==
    IF DictHas(method_params, "maghrib_angle")
    THEN CalculateTime(latitude, dec,
                       90000 + DictGet(method_params, "maghrib_angle"),
                       eqt, longitude, tz, FALSE)
    ELSE CalculateTime(latitude, dec, 90833, eqt, longitude, tz, TRUE)

(* The local dict times for given sun_declination and equation_of_time.    *)
TimesFrom(method_params, latitude, longitude, tz, dec, eqt) ==
    TimesDict(method_params, latitude, longitude, tz, dec, eqt,
              FajrTime(method_params, latitude, longitude, tz, dec, eqt),
              MaghribTime(method_params, latitude, longitude, tz, dec, eqt))

(* The body of calculate_prayer_times down to the imsak assignment.        *)
ComputeTimes(methods, latitude, longitude, date, method, tz) ==
    TimesFrom(MethodParams(methods, method), latitude, longitude, tz,
              SunDeclination(JulianDate2(date)),
              EquationOfTime(JulianDate2(date)))

RECURSIVE ApplyAdjustmentsUnguarded(_, _)
(* The adjustment loop without its test  prayer in times:  an entry for a  *)
(* key that times lacks is stored as a new item, counted from 0.           *)
ApplyAdjustmentsUnguarded(times, adjustments) ==
    IF adjustments = <<>> THEN times
    ELSE LET prayer == Head(adjustments)[1]
             adjustment == Head(adjustments)[2]
             adjusted ==
                 DictSet(times, prayer,
                         DictGetDefault(times, prayer, 0) + adjustment * 1000)
         IN  ApplyAdjustmentsUnguarded(adjusted, Tail(adjustments))

RECURSIVE ApplyAdjustments(_, _)
(* for prayer, adjustment in adjustments.items():                          *)
(*     if prayer in times: times[prayer] += adjustment / 60.0              *)
ApplyAdjustments(times, adjustments) ==
    IF adjustments = <<>> THEN times
    ELSE LET prayer == Head(adjustments)[1]
             adjustment == Head(adjustments)[2]
             adjusted ==
                 IF DictHas(times, prayer)
                 THEN DictSet(times, prayer,
                              DictGet(times, prayer) + adjustment * 1000)
                 ELSE times
         IN  ApplyAdjustments(adjusted, Tail(adjustments))

(* formatted_times: one _format_time per item of times, in its order.      *)
FormatTimes(times, below) ==
    LET Items(t) ==
            [i \in 1..Len(t) |-> <<t[i][1], FormatTime(t[i][2], below)>>]
    IN  CHOOSE formatted_times \in {Items(t) : t \in {times}} : TRUE

(* The adjusted local dict times of calculate_prayer_times.                *)
AdjustedTimes(methods, latitude, longitude, date, method, tz, adjustments) ==
    LET items == IF adjustments = <<>> THEN <<>> ELSE adjustments[1]
    IN  CHOOSE adjusted \in
            {ApplyAdjustments(times, items) :
                times \in {ComputeTimes(methods, latitude, longitude, date,
                                        method, tz)}} : TRUE

(* The dict calculate_prayer_times returns for the adjusted times.         *)
PrayerTimesResult(latitude, longitude, date, method, times, below) ==
    [date     |-> IsoFormat(date),
     method   |-> method,
     location |-> [latitude |-> latitude, longitude |-> longitude],
     times    |-> FormatTimes(times, below)]


(***************************************************************************)
(* get_next_prayer.                                                        *)
(***************************************************************************)
IsStr(v) == v # None

RECURSIVE Split(_, _)
(* s.split(sep) for a str s and a one-character separator.                 *)
Split(s, sep) ==
    IF \A i \in 1..Len(s) : s[i] # sep THEN <<s>>
    ELSE LET k == CHOOSE i \in 1..Len(s) :
                      s[i] = sep /\ \A j \in 1..(i - 1) : s[j] # sep
         IN  <<SubSeq(s, 1, k - 1)>> \o Split(SubSeq(s, k + 1, Len(s)), sep)

(* Whether int(s) succeeds: an optional sign, then one or more digits.     *)
IsInt(s) ==
    LET body == IF s # <<>> /\ s[1] \in {"-", "+"} THEN Tail(s) ELSE s
    IN  body # <<>> /\ \A i \in 1..Len(body) : body[i] \in DigitChars

RECURSIVE DigitsValue(_)
DigitsValue(s) ==
    IF s = <<>> THEN 0
    ELSE 10 * DigitsValue(SubSeq(s, 1, Len(s) - 1)) + DigitValue(s[Len(s)])

(* int(s) where IsInt(s).                                                  *)
ParseInt(s) ==
    IF s[1] = "-" THEN -DigitsValue(Tail(s))
    ELSE IF s[1] = "+" THEN DigitsValue(Tail(s))
    ELSE DigitsValue(s)

(* Whether  hours, minutes = map(int, time_str.split(":"))  succeeds:      *)
(* AttributeError when time_str is no str, ValueError when the parts are   *)
(* not two or one of them is no integer.                                   *)
ParsesAsTime(time_str) ==
    /\ IsStr(time_str)
    /\ Len(Split(time_str, ":")) = 2
    /\ \A i \in 1..2 : IsInt(Split(time_str, ":")[i])

(* hours * 60 + minutes of a time_str that parses.                         *)
TotalMinutes(time_str) ==
    LET parts == Split(time_str, ":")
    IN  ParseInt(parts[1]) * 60 + ParseInt(parts[2])

NEXT_PRAYERS == <<"fajr", "sunrise", "dhuhr", "asr", "maghrib", "isha">>

RECURSIVE PrayerMinutes(_, _)
(* The list prayer_minutes after the first loop, from prayer number i on:  *)
(* a missing key reads as "00:00", a value that does not parse is skipped. *)
PrayerMinutes(prayer_times, i) ==
    IF i > Len(NEXT_PRAYERS) THEN <<>>
    ELSE LET time_str == DictGetDefault(prayer_times, NEXT_PRAYERS[i],
                                         <<"0", "0", ":", "0", "0">>)
             rest == PrayerMinutes(prayer_times, i + 1)
         IN  IF ParsesAsTime(time_str)
             THEN <<<<NEXT_PRAYERS[i], TotalMinutes(time_str)>>>> \o rest
             ELSE rest

(* What a call did: returned a value, returned None, or raised.            *)
Returned(v) == [outcome |-> "returned", value |-> v]

ReturnedNone == [outcome |-> "none", value |-> <<>>]

Raised(error) == [outcome |-> "raised", value |-> <<error>>]

Pending == [outcome |-> "pending", value |-> <<>>]

(* The countdown dict of either return statement; prayer_times[prayer]     *)
(* raises KeyError on a missing key.                                       *)
NextPrayerDict(prayer_times, prayer, time_until, tomorrow) ==
    IF ~DictHas(prayer_times, prayer) THEN Raised("KeyError")
    ELSE Returned(
         LET common == << <<"prayer", prayer>>,
                          <<"time", DictGet(prayer_times, prayer)>>,
                          <<"minutes_until", time_until>>,
                          <<"hours_until", time_until \div 60>>,
                          <<"remaining_minutes", time_until % 60>> >>
         IN  IF tomorrow THEN Append(common, <<"tomorrow", TRUE>>) ELSE common)

(* The countdown to tomorrow's fajr without the minutes left of today.     *)
TomorrowCountdownFromMidnight(current_minutes, fajr_time) == fajr_time

(* The countdown without the minutes of today that have passed.            *)
TomorrowCountdownFullDay(current_minutes, fajr_time) == 24 * 60 + fajr_time

(* time_until = (24 * 60 - current_minutes) + fajr_time.                   *)
TomorrowCountdown(current_minutes, fajr_time) ==
    (24 * 60 - current_minutes) + fajr_time

(* get_next_prayer with datetime.now() read as current_minutes.            *)
GetNextPrayer(prayer_times, current_minutes) ==
    LET prayer_minutes == PrayerMinutes(prayer_times, 1)
        later == {i \in 1..Len(prayer_minutes) :
                      prayer_minutes[i][2] > current_minutes}
    IN  IF later # {}
        THEN LET first == CHOOSE i \in later : \A j \in later : i <= j
             IN  NextPrayerDict(prayer_times, prayer_minutes[first][1],
                                prayer_minutes[first][2] - current_minutes,
                                FALSE)
        ELSE IF prayer_minutes # <<>>
        THEN NextPrayerDict(prayer_times, "fajr",
                            TomorrowCountdown(current_minutes,
                                              prayer_minutes[1][2]),
                            TRUE)
        ELSE ReturnedNone

(***************************************************************************)
(* get_monthly_prayer_times.                                               *)
(***************************************************************************)

(* A leap year every fourth year, century years included.                  *)
IsLeapJulian(year) == year % 4 = 0

(* calendar.isleap, which monthrange consults for February.                *)
IsLeap(year) == year % 4 = 0 /\ (year % 100 # 0 \/ year % 400 = 0)

(* calendar.monthrange(year, month)[1].                                    *)
DaysInMonth(year, month) ==
    IF month = 2 THEN (IF IsLeap(year) THEN 29 ELSE 28)
    ELSE IF month \in {4, 6, 9, 11} THEN 30 ELSE 31

(* The same with date_obj left at the first of the month for every day.    *)
MonthlyOfFirstDay(methods, latitude, longitude, year, month, method) ==
    [day \in 1..DaysInMonth(year, month) |->
        LET date_obj == [year |-> year, month |-> month, day |-> 1]
        IN  PrayerTimesResult(latitude, longitude, date_obj, method,
                AdjustedTimes(methods, latitude, longitude, date_obj, method,
                              0, <<>>),
                FALSE)]

(* The list monthly_times: calculate_prayer_times for day 1, 2, ... of the *)
(* month, with its default timezone_offset 0 and no adjustments.  The      *)
(* coordinates of the monthly requests put no time value just below zero.  *)
GetMonthlyPrayerTimes(methods, latitude, longitude, year, month, method) ==
    [day \in 1..DaysInMonth(year, month) |->
        LET date_obj == [year |-> year, month |-> month, day |-> day]
        IN  PrayerTimesResult(latitude, longitude, date_obj, method,
                AdjustedTimes(methods, latitude, longitude, date_obj, method,
                              0, <<>>),
                FALSE)]

(***************************************************************************)
(* get_qibla_direction.                                                    *)
(***************************************************************************)

(* kaaba_lat = 21.4225 and kaaba_lon = 39.8262 degrees, to the mdeg.       *)
KAABA_LAT == 21423

KAABA_LON == 39826

(* earth_radius, km.                                                       *)
EARTH_RADIUS == 6371

(* math.sqrt on a value of 0..One (scaled by One): the largest t with      *)
(* t * t <= a * One, the squares compared by thousands (t = 1000 q + r) so *)
(* that no product leaves 32 bits.                                         *)
Sqrt[a \in Int] ==
    LET Below(t) ==
            LET q == t \div 1000
                r == t % 1000
            IN  /\ q * q <= a
                /\ \/ a - q * q > 2000
                   \/ 2000 * q * r + r * r <= One * (a - q * q)
    IN  Bisect(Below, 0, One + 1, 21)

(* round(v, 2) on a value v >= 0 given in thousandths: in hundredths.      *)
Round2(thousandths) == (thousandths + 5) \div 10

(* The bearing from North, before rounding, in mdeg 0..359999 (at the      *)
(* Kaaba and at its antipode, where y and x both vanish, atan2 decides on  *)
(* rounding residue; the fixed point gives 0 or 180 degrees there).        *)
Bearing(latitude, longitude) ==
    LET delta_lon == KAABA_LON - longitude
        y == Mul[Sin[delta_lon], Cos[KAABA_LAT]]
        x == Mul[Cos[latitude], Sin[KAABA_LAT]]
                 - Mul[Mul[Sin[latitude], Cos[KAABA_LAT]], Cos[delta_lon]]
    IN  (Atan2[y, x] + 360000) % 360000

(* a of the haversine formula with the cosine of the half difference of    *)
(* the latitudes for its sine.                                             *)
HaversineCosine(latitude, longitude) ==
    LET cos_lat == Cos[(KAABA_LAT - latitude) \div 2]
        sin_lon == Sin[(KAABA_LON - longitude) \div 2]
    IN  Mul[cos_lat, cos_lat]
            + Mul[Mul[Cos[latitude], Cos[KAABA_LAT]], Mul[sin_lon, sin_lon]]

(* a of the haversine formula.                                             *)
Haversine(latitude, longitude) ==
    LET sin_lat == Sin[(KAABA_LAT - latitude) \div 2]
        sin_lon == Sin[(KAABA_LON - longitude) \div 2]
    IN  Mul[sin_lat, sin_lat]
            + Mul[Mul[Cos[latitude], Cos[KAABA_LAT]], Mul[sin_lon, sin_lon]]

(* c = 2 * atan2(sqrt(a), sqrt(1 - a)), in radians scaled by One.          *)
CentralAngle[h \in Int] ==
    LET a == IF h > One THEN One ELSE h
    IN  2 * Radians[Atan2[Sqrt[a], Sqrt[One - a]]]

(* earth_radius * c, in metres.                                            *)
ArcLength[c \in Int] ==
    EARTH_RADIUS * (c \div 1000) + (EARTH_RADIUS * (c % 1000)) \div 1000

(* The great-circle distance (haversine), before rounding, in metres.  The *)
(* fixed point resolves a to 1/One, that is the distance to about 1 km far *)
(* from the Kaaba and to about 13 km next to it.                           *)
Distance(latitude, longitude) ==
    ArcLength[CentralAngle[Haversine(latitude, longitude)]]

(* The returned dict: qibla_direction in hundredths of a degree and        *)
(* distance_km in hundredths of a km, as round(_, 2) leaves them.          *)
GetQiblaDirection(latitude, longitude) ==
    [qibla_direction |-> Round2(Bearing(latitude, longitude)),
     distance_km |-> Round2(Distance(latitude, longitude)),
     kaaba_location |-> [latitude |-> KAABA_LAT, longitude |-> KAABA_LON]]

(***************************************************************************)
(* get_prayer_times_from_api.                                              *)
(***************************************************************************)

(* method_map: the Al Adhan method codes.                                  *)
METHOD_MAP ==
    << <<"MuslimWorldLeague", 3>>, <<"Egyptian", 5>>, <<"UmmAlQura", 4>>,
       <<"Karachi", 1>>, <<"ISNA", 2>>, <<"Jafari", 0>> >>

(* The GET of one attempt: the date of the url,                            *)
(* date_obj.strftime('%d-%m-%Y'), and params, with                         *)
(* method_code = method_map.get(method, 5).                                *)
ApiRequest(latitude, longitude, date, method) ==
    [date      |-> ZeroPad(Decimal(date.day), 2) \o <<"-">>
                       \o ZeroPad(Decimal(date.month), 2) \o <<"-">>
                       \o ZeroPad(Decimal(date.year), 4),
     latitude  |-> latitude,
     longitude |-> longitude,
     method    |-> DictGetDefault(METHOD_MAP, method, 5)]

(* The keys of "times" and the keys of timings they are read from.         *)
TIMING_KEYS ==
    << <<"imsak", "Imsak">>, <<"fajr", "Fajr">>, <<"sunrise", "Sunrise">>,
       <<"dhuhr", "Dhuhr">>, <<"asr", "Asr">>, <<"maghrib", "Maghrib">>,
       <<"isha", "Isha">> >>

(* The dict returned for a body with code 200: timings.get(key, "") for    *)
(* each of the seven keys.                                                 *)
ApiResult(latitude, longitude, date, method, timings) ==
    [date     |-> IsoFormat(date),
     method   |-> method,
     location |-> [latitude |-> latitude, longitude |-> longitude],
     times    |-> [i \in 1..Len(TIMING_KEYS) |->
                      <<TIMING_KEYS[i][1],
                        DictGetDefault(timings, TIMING_KEYS[i][2], <<>>)>>],
     source   |-> "aladhan_api"]

(* Whether the try block gets to its return: client.get returned a         *)
(* response, raise_for_status passed, response.json() gave a dict whose    *)
(* "code" is 200 and which holds data.timings.                             *)
ApiSucceeds(response) ==
    /\ response.transport = "ok"
    /\ response.status \in 200..299
    /\ response.json
    /\ response.code = 200
    /\ response.has_timings

(* calculate_prayer_times(latitude, longitude, date_obj, method) as the    *)
(* except blocks call it.  With a coordinate that is NaN every time value  *)
(* is NaN and int(time_value) of _format_time raises ValueError.           *)
LocalCalculation(methods, latitude, longitude, nan, date, method) ==
    IF nan THEN Raised("ValueError")
    ELSE Returned(PrayerTimesResult(latitude, longitude, date, method,
                      AdjustedTimes(methods, latitude, longitude, date,
                                    method, 0, <<>>),
                      FALSE))

(* One run of the function body for the response the attempt met.          *)
ApiAttempt(methods, latitude, longitude, nan, date, method, response) ==
    IF ApiSucceeds(response)
    THEN Returned(ApiResult(latitude, longitude, date, method,
                            response.timings))
    ELSE LocalCalculation(methods, latitude, longitude, nan, date, method)

(* stop=stop_after_attempt(3).                                             *)
STOP_AFTER_ATTEMPT == 3

(***************************************************************************)
(* InMemoryRateLimiter (dependencies/rate_limit.py).  The dict requests is *)
(* a sequence of <<key, list of request times>>; times are whole seconds.  *)
(***************************************************************************)

(* The same with the request time appended whether or not the limit is     *)
(* exceeded.                                                               *)
IsAllowedRecording(reqs, key, max_requests, window_seconds, current_time) ==
    LET cutoff_time == current_time - window_seconds
        recent == SelectSeq(DictGetDefault(reqs, key, <<>>),
                            LAMBDA req_time : req_time > cutoff_time)
    IN  [requests |-> DictSet(reqs, key, Append(recent, current_time)),
         allowed  |-> Len(recent) < max_requests]

(* The block of is_allowed under self.lock, entered with the current_time  *)
(* read before it: the dict requests it leaves and the value returned.     *)
IsAllowedLocked(reqs, key, max_requests, window_seconds, current_time) ==
    LET cutoff_time == current_time - window_seconds
        recent == SelectSeq(DictGetDefault(reqs, key, <<>>),
                            LAMBDA req_time : req_time > cutoff_time)
    IN  IF Len(recent) >= max_requests
        THEN [requests |-> DictSet(reqs, key, recent), allowed |-> FALSE]
        ELSE [requests |-> DictSet(reqs, key, Append(recent, current_time)),
              allowed  |-> TRUE]

(***************************************************************************)
(* RateLimitingMiddleware (middleware/rate_limiting.py).  A pattern and a  *)
(* path are sequences of characters; ".*" in a pattern is one element.     *)
(***************************************************************************)
RATE_LIMIT_REQUESTS == 100

RATE_LIMIT_WINDOW == 60

(* self.endpoint_limits, in the order of the dict.                         *)
ENDPOINT_LIMITS ==
    << 
       <<<<"/", "h", "e", "a", "l", "t", "h", ".*">>,
         [requests |-> 1000, window |-> 60]>>,
       <<<<"/", "a", "p", "i", "/", ".*", "s", "e", "a", "r", "c", "h">>,
         [requests |-> 60, window |-> 60]>>,
       <<<<"/", "a", "p", "i", "/", "q", "u", "r", "a", "n", "/", "s", "e", "a", "r", "c", "h">>,
         [requests |-> 60, window |-> 60]>>,
       <<<<"/", "a", "p", "i", "/", "q", "u", "r", "a", "n", "/", "s", "u", "r", "a", "h">>,
         [requests |-> 100, window |-> 60]>>,
       <<<<"/", "a", "p", "i", "/", "q", "u", "r", "a", "n", "/", "r", "a", "n", "d", "o", "m">>,
         [requests |-> 30, window |-> 60]>>,
       <<<<"/", "a", "p", "i", "/", "m", "o", "s", "q", "u", "e", "/", "n", "e", "a", "r", "b", "y">>,
         [requests |-> 50, window |-> 60]>>,
       <<<<"/", "a", "p", "i", "/", "p", "r", "a", "y", "e", "r", "/", "p", "T", "i", "m", "e", "s">>,
         [requests |-> 30, window |-> 60]>>,
       <<<<"/", "a", "p", "i", "/", "d", "h", "i", "k", "r", "/", "d", "a", "i", "l", "y">>,
         [requests |-> 20, window |-> 60]>>,
       <<<<"/", "a", "p", "i", "/", "d", "h", "i", "k", "r", "/", "r", "a", "n", "d", "o", "m">>,
         [requests |-> 30, window |-> 60]>>,
       <<<<"/", "s", "t", "a", "t", "i", "c", ".*">>,
         [requests |-> 1000, window |-> 60]>>,
       <<<<"/", "f", "a", "v", "i", "c", "o", "n", ".*">>,
         [requests |-> 1000, window |-> 60]>> >>

(* re.match(pattern, path): the pattern matches a prefix of the path.      *)
RECURSIVE ReMatch(_, _)
ReMatch(pattern, path) ==
    IF pattern = <<>> THEN TRUE
    ELSE IF Head(pattern) = ".*"
         THEN \E k \in 0..Len(path) :
                  ReMatch(Tail(pattern), SubSeq(path, k + 1, Len(path)))
         ELSE /\ path # <<>>
              /\ Head(pattern) = Head(path)
              /\ ReMatch(Tail(pattern), Tail(path))

(* _get_limit_config: the entry of the first pattern that matches          *)
(* request.url.path, or default_limits.                                    *)
GetLimitConfig(request) ==
    LET matching == {i \in 1..Len(ENDPOINT_LIMITS) :
                         ReMatch(ENDPOINT_LIMITS[i][1], request.path)}
    IN  IF matching = {}
        THEN [requests |-> RATE_LIMIT_REQUESTS, window |-> RATE_LIMIT_WINDOW]
        ELSE ENDPOINT_LIMITS[CHOOSE i \in matching :
                                 \A j \in matching : i <= j][2]

(***************************************************************************)
(* AdvancedRateLimitingMiddleware (middleware/rate_limiting.py).           *)
(***************************************************************************)
BLOCK_SECONDS == 300

(* _check_rate_limit: request_counts as it leaves it, and what it returns. *)
CheckRateLimit(counts, client_ip, current_time) ==
    LET window_size == RATE_LIMIT_WINDOW
        max_requests == RATE_LIMIT_REQUESTS
        recent == SelectSeq(DictGetDefault(counts, client_ip, <<>>),
                            LAMBDA req_time :
                                current_time - req_time < window_size)
    IN  IF Len(recent) < max_requests
        THEN [request_counts |-> DictSet(counts, client_ip,
                                         Append(recent, current_time)),
              allowed |-> TRUE]
        ELSE [request_counts |-> DictSet(counts, client_ip, recent),
              allowed |-> FALSE]

(***************************************************************************)
(* The service as a state machine.  Every operation is a static method;    *)
(* the only state that outlives a call is the class attribute              *)
(* CALCULATION_METHODS.  A caller is a request being served: its           *)
(* arguments, its position, the local dict times of its calculation and    *)
(* what the call gave back.                                                *)
(***************************************************************************)
VARIABLES
    methods,    \* PrayerService.CALCULATION_METHODS
    pc,         \* caller -> "call", "computed" (calculate, before the adjustments), "done"
    args,       \* caller -> the operation and its arguments
    times,      \* caller -> the local dict times of calculate_prayer_times
    ret,        \* caller -> Pending, Returned(value), ReturnedNone or Raised(error)
    http,       \* caller -> the requests its get_prayer_times_from_api has sent
    clock,      \* time.time(), in whole seconds
    requests,   \* rate_limiter.requests
    accepted,   \* the requests let through: <<client, path>> -> their times
    request_counts, \* AdvancedRateLimitingMiddleware.request_counts
    blocked_ips     \* AdvancedRateLimitingMiddleware.blocked_ips

(* What lies outside the calculations: the HTTP side of the service.       *)
web == <<http, clock, requests, accepted,
                 request_counts, blocked_ips>>

vars == <<methods, pc, args, times, ret, web>>

(* Nothing sent and nothing received yet.                                  *)
WebIdle ==
    /\ http = [c \in DOMAIN pc |-> <<>>]
    /\ clock = 0
    /\ requests = <<>>
    /\ accepted = <<>>
    /\ request_counts = <<>>
    /\ blocked_ips = <<>>

Callers == DOMAIN pc

AdjustmentsOf(a) == IF a.adjustments = <<>> THEN <<>> ELSE a.adjustments[1]

(* The same with times kept in one place for all calls (a class attribute  *)
(* instead of a local), so that a call overwrites the times of the others. *)
CalculateComputeShared(c) ==
    /\ pc[c] = "call"
    /\ args[c].op = "calculate"
    /\ times' = [d \in Callers |->
                    ComputeTimes(methods, args[c].latitude, args[c].longitude,
                                 args[c].date, args[c].method, args[c].tz)]
    /\ pc' = [pc EXCEPT ![c] = "computed"]
    /\ UNCHANGED <<methods, args, ret, web>>

(* The same with the sunset angle stored into the method's entry as its    *)
(* maghrib_angle when the entry has none (a default written into the dict  *)
(* that .get returned, which is the registry's own).                       *)
CalculateComputeStoring(c) ==
    /\ pc[c] = "call"
    /\ args[c].op = "calculate"
    /\ times' = [times EXCEPT ![c] =
                    ComputeTimes(methods, args[c].latitude, args[c].longitude,
                                 args[c].date, args[c].method, args[c].tz)]
    /\ methods' =
           IF DictHas(MethodParams(methods, args[c].method), "maghrib_angle")
           THEN methods
           ELSE DictSet(methods, args[c].method,
                        DictSet(MethodParams(methods, args[c].method),
                                "maghrib_angle", 833))
    /\ pc' = [pc EXCEPT ![c] = "computed"]
    /\ UNCHANGED <<args, ret, web>>

(* calculate_prayer_times from entry to the end of the imsak assignment.   *)
CalculateCompute(c) ==
    /\ pc[c] = "call"
    /\ args[c].op = "calculate"
    /\ times' = [times EXCEPT ![c] =
                    ComputeTimes(methods, args[c].latitude, args[c].longitude,
                                 args[c].date, args[c].method, args[c].tz)]
    /\ pc' = [pc EXCEPT ![c] = "computed"]
    /\ UNCHANGED <<methods, args, ret, web>>

(* calculate_prayer_times from the adjustment loop to the return.          *)
CalculateReturn(c) ==
    /\ pc[c] = "computed"
    /\ times' = [times EXCEPT ![c] =
                    ApplyAdjustments(times[c], AdjustmentsOf(args[c]))]
    /\ ret' = [ret EXCEPT ![c] =
                  Returned(PrayerTimesResult(args[c].latitude, args[c].longitude,
                                             args[c].date, args[c].method,
                                             times'[c], args[c].below))]
    /\ pc' = [pc EXCEPT ![c] = "done"]
    /\ UNCHANGED <<methods, args, web>>

(* calculate_prayer_times, one whole call.                                 *)
Calculate(c) ==
    /\ pc[c] = "call"
    /\ args[c].op = "calculate"
    /\ times' = [times EXCEPT ![c] =
                    AdjustedTimes(methods, args[c].latitude, args[c].longitude,
                                  args[c].date, args[c].method, args[c].tz,
                                  args[c].adjustments)]
    /\ ret' = [ret EXCEPT ![c] =
                  Returned(PrayerTimesResult(args[c].latitude, args[c].longitude,
                                             args[c].date, args[c].method,
                                             times'[c], args[c].below))]
    /\ pc' = [pc EXCEPT ![c] = "done"]
    /\ UNCHANGED <<methods, args, web>>

(* get_next_prayer, one whole call; the clock read is kept in args.        *)
NextPrayer(c, current_minutes) ==
    /\ pc[c] = "call"
    /\ args[c].op = "next"
    /\ args' = [args EXCEPT ![c].now = current_minutes]
    /\ ret' = [ret EXCEPT ![c] =
                  GetNextPrayer(args[c].prayer_times, current_minutes)]
    /\ pc' = [pc EXCEPT ![c] = "done"]
    /\ UNCHANGED <<methods, times, web>>

(* get_monthly_prayer_times, one whole call.                               *)
Monthly(c) ==
    /\ pc[c] = "call"
    /\ args[c].op = "monthly"
    /\ ret' = [ret EXCEPT ![c] =
                  Returned(GetMonthlyPrayerTimes(methods, args[c].latitude,
                                                 args[c].longitude,
                                                 args[c].year, args[c].month,
                                                 args[c].method))]
    /\ pc' = [pc EXCEPT ![c] = "done"]
    /\ UNCHANGED <<methods, args, times, web>>

(* get_qibla_direction, one whole call.                                    *)
Qibla(c) ==
    /\ pc[c] = "call"
    /\ args[c].op = "qibla"
    /\ ret' = [ret EXCEPT ![c] =
                  Returned(GetQiblaDirection(args[c].latitude,
                                             args[c].longitude))]
    /\ pc' = [pc EXCEPT ![c] = "done"]
    /\ UNCHANGED <<methods, args, times, web>>

(* _format_time, one whole call.                                           *)
Format(c) ==
    /\ pc[c] = "call"
    /\ args[c].op = "format"
    /\ ret' = [ret EXCEPT ![c] =
                  Returned(FormatTime(args[c].time_value, args[c].below))]
    /\ pc' = [pc EXCEPT ![c] = "done"]
    /\ UNCHANGED <<methods, args, times, web>>

(* _calculate_julian_date, one whole call; the value kept is 2 * jd.       *)
JulianDate(c) ==
    /\ pc[c] = "call"
    /\ args[c].op = "julian"
    /\ ret' = [ret EXCEPT ![c] = Returned(JulianDate2(args[c].date))]
    /\ pc' = [pc EXCEPT ![c] = "done"]
    /\ UNCHANGED <<methods, args, times, web>>

(* _equation_of_time, one whole call, in mmin.                             *)
EquationOfTimeCall(c) ==
    /\ pc[c] = "call"
    /\ args[c].op = "eqt"
    /\ ret' = [ret EXCEPT ![c] = Returned(EquationOfTime(args[c].jd2))]
    /\ pc' = [pc EXCEPT ![c] = "done"]
    /\ UNCHANGED <<methods, args, times, web>>

(* _equation_of_time from  EqT = q - RA  to the return, entered with the   *)
(* difference q - RA in mdeg.                                              *)
EquationOfTimeReduce(c) ==
    /\ pc[c] = "call"
    /\ args[c].op = "reduce"
    /\ ret' = [ret EXCEPT ![c] = Returned(EqtMinutes(args[c].EqT))]
    /\ pc' = [pc EXCEPT ![c] = "done"]
    /\ UNCHANGED <<methods, args, times, web>>

(* get_prayer_times_from_api from its entry, or from the start of another  *)
(* attempt of the retry wrapper, to the await of client.get.               *)
ApiSend(c) ==
    /\ pc[c] = "call"
    /\ args[c].op = "api"
    /\ http' = [http EXCEPT ![c] =
                   Append(@, ApiRequest(args[c].latitude, args[c].longitude,
                                        args[c].date, args[c].method))]
    /\ pc' = [pc EXCEPT ![c] = "awaiting"]
    /\ UNCHANGED <<methods, args, times, ret, clock, requests, accepted,
                 request_counts, blocked_ips>>

(* The rest of the attempt, for the response (or the failure) that         *)
(* client.get meets.  An exception leaving the function body reaches the   *)
(* retry wrapper, which runs the body again until the attempts are used up *)
(* and then raises RetryError.                                             *)
ApiReceive(c, response) ==
    /\ pc[c] = "awaiting"
    /\ LET attempt == ApiAttempt(methods, args[c].latitude, args[c].longitude,
                                 args[c].nan, args[c].date, args[c].method,
                                 response)
       IN  IF attempt.outcome # "raised"
           THEN /\ ret' = [ret EXCEPT ![c] = attempt]
                /\ pc' = [pc EXCEPT ![c] = "done"]
           ELSE IF Len(http[c]) < STOP_AFTER_ATTEMPT
           THEN /\ pc' = [pc EXCEPT ![c] = "call"]
                /\ UNCHANGED ret
           ELSE /\ ret' = [ret EXCEPT ![c] = Raised("RetryError")]
                /\ pc' = [pc EXCEPT ![c] = "done"]
    /\ UNCHANGED <<methods, args, times, http, clock, requests, accepted,
                 request_counts, blocked_ips>>

(* time.time() moving on by some seconds.                                  *)
Tick(seconds, max_clock) ==
    /\ clock + seconds <= max_clock
    /\ clock' = clock + seconds
    /\ UNCHANGED <<methods, pc, args, times, ret, http, requests, accepted,
                 request_counts, blocked_ips>>

(* is_allowed from its entry to the lock: current_time = time.time().      *)
ReadClock(c) ==
    /\ pc[c] = "call"
    /\ args[c].op = "is_allowed"
    /\ args' = [args EXCEPT ![c].current_time = clock]
    /\ pc' = [pc EXCEPT ![c] = "locking"]
    /\ UNCHANGED <<methods, times, ret, web>>

(* is_allowed from taking the lock to its return.  Every access to         *)
(* requests is made under the lock, so the block is one step.              *)
IsAllowed(c) ==
    /\ pc[c] = "locking"
    /\ LET locked == IsAllowedLocked(requests, args[c].key,
                                     args[c].max_requests,
                                     args[c].window_seconds,
                                     args[c].current_time)
       IN  /\ requests' = locked.requests
           /\ ret' = [ret EXCEPT ![c] = Returned(locked.allowed)]
    /\ pc' = [pc EXCEPT ![c] = "done"]
    /\ UNCHANGED <<methods, args, times, http, clock, accepted,
                 request_counts, blocked_ips>>

(* reset, one whole call: under the lock, del self.requests[key] if the    *)
(* key is there.                                                           *)
Reset(c) ==
    /\ pc[c] = "call"
    /\ args[c].op = "reset"
    /\ requests' = SelectSeq(requests, LAMBDA item : item[1] # args[c].key)
    /\ ret' = [ret EXCEPT ![c] = ReturnedNone]
    /\ pc' = [pc EXCEPT ![c] = "done"]
    /\ UNCHANGED <<methods, args, times, http, clock, accepted,
                 request_counts, blocked_ips>>

(* RateLimitingMiddleware.dispatch for one request, with                   *)
(* settings.RATE_LIMIT_ENABLED as configured (True).  Nothing is awaited   *)
(* between its entry and the return of is_allowed, and get_remaining on    *)
(* the rejecting path cleans the list with the cutoff is_allowed has just  *)
(* used.  The identifier is f"ip:{client_ip}" (_get_identifier).  A        *)
(* request let through is added to the log accepted under its client and   *)
(* the limits applied to it.                                               *)
Dispatch(c, request) ==
    /\ pc[c] \in {"call", "done"}
    /\ LET identifier == <<"ip", request.client_ip>>
           limit_config == GetLimitConfig(request)
           locked == IsAllowedLocked(requests, identifier,
                                     limit_config.requests,
                                     limit_config.window, clock)
           entry == <<request.client_ip, request.path>>
       IN  /\ requests' = locked.requests
           /\ ret' = [ret EXCEPT ![c] = IF locked.allowed
                                        THEN Returned("response")
                                        ELSE Raised("429")]
           /\ accepted' = IF locked.allowed
                          THEN DictSet(accepted, entry,
                                       Append(DictGetDefault(accepted, entry,
                                                             <<>>),
                                              clock))
                          ELSE accepted
    /\ args' = [args EXCEPT ![c] = [op           |-> "dispatch",
                                    client_ip    |-> request.client_ip,
                                    path         |-> request.path,
                                    current_time |-> clock]]
    /\ pc' = [pc EXCEPT ![c] = "done"]
    /\ UNCHANGED <<methods, times, http, clock, request_counts, blocked_ips>>

(* The same with the block started anew by every request it rejects.       *)
AdvancedDispatchExtending(c, request) ==
    /\ pc[c] \in {"call", "done"}
    /\ LET client_ip == request.client_ip
           current_time == clock
           blocked == /\ DictHas(blocked_ips, client_ip)
                      /\ current_time < DictGet(blocked_ips, client_ip)
           unblocked == SelectSeq(blocked_ips, LAMBDA item : item[1] # client_ip)
           checked == CheckRateLimit(request_counts, client_ip, current_time)
       IN  IF blocked
           THEN /\ ret' = [ret EXCEPT ![c] = Raised("429")]
                /\ blocked_ips' = DictSet(blocked_ips, client_ip,
                                          current_time + BLOCK_SECONDS)
                /\ UNCHANGED request_counts
           ELSE /\ request_counts' = checked.request_counts
                /\ IF checked.allowed
                   THEN /\ blocked_ips' = unblocked
                        /\ ret' = [ret EXCEPT ![c] = Returned("response")]
                   ELSE /\ blocked_ips' = DictSet(unblocked, client_ip,
                                                  current_time + BLOCK_SECONDS)
                        /\ ret' = [ret EXCEPT ![c] = Raised("429")]
    /\ args' = [args EXCEPT ![c] = [op           |-> "dispatch",
                                    client_ip    |-> request.client_ip,
                                    path         |-> request.path,
                                    current_time |-> clock]]
    /\ pc' = [pc EXCEPT ![c] = "done"]
    /\ UNCHANGED <<methods, times, http, clock, requests, accepted>>

(* AdvancedRateLimitingMiddleware.dispatch for one request, with           *)
(* settings.RATE_LIMIT_ENABLED as configured (True); nothing is awaited    *)
(* before call_next.  A block that has run out is deleted before the       *)
(* limit is checked.                                                       *)
AdvancedDispatch(c, request) ==
    /\ pc[c] \in {"call", "done"}
    /\ LET client_ip == request.client_ip
           current_time == clock
           blocked == /\ DictHas(blocked_ips, client_ip)
                      /\ current_time < DictGet(blocked_ips, client_ip)
           unblocked == SelectSeq(blocked_ips, LAMBDA item : item[1] # client_ip)
           checked == CheckRateLimit(request_counts, client_ip, current_time)
       IN  IF blocked
           THEN /\ ret' = [ret EXCEPT ![c] = Raised("429")]
                /\ UNCHANGED blocked_ips
                /\ UNCHANGED request_counts
           ELSE /\ request_counts' = checked.request_counts
                /\ IF checked.allowed
                   THEN /\ blocked_ips' = unblocked
                        /\ ret' = [ret EXCEPT ![c] = Returned("response")]
                   ELSE /\ blocked_ips' = DictSet(unblocked, client_ip,
                                                  current_time + BLOCK_SECONDS)
                        /\ ret' = [ret EXCEPT ![c] = Raised("429")]
    /\ args' = [args EXCEPT ![c] = [op           |-> "dispatch",
                                    client_ip    |-> request.client_ip,
                                    path         |-> request.path,
                                    current_time |-> clock]]
    /\ pc' = [pc EXCEPT ![c] = "done"]
    /\ UNCHANGED <<methods, times, http, clock, requests, accepted>>

(***************************************************************************)
(* Inputs of the checked calls.                                            *)
(***************************************************************************)
MaxLatK == 3

MaxLonK == 1

MaxDates == 2

MaxTzK == 1

MaxAdjK == 1

Latitudes == {k * 30000 : k \in -MaxLatK..MaxLatK}

Longitudes == {k * 90000 : k \in -MaxLonK..MaxLonK}

DateOf(i) == [year  |-> 2024 + (i - 1) \div 4,
              month |-> 3 * (((i - 1) % 4) + 1),
              day   |-> 21]

Dates == {DateOf(i) : i \in 1..MaxDates}

TimezoneOffsets == {k * 3 * HourMmin : k \in 0..MaxTzK}

RegistryIds == {CALCULATION_METHODS[i][1] : i \in 1..Len(CALCULATION_METHODS)}

MethodIds == RegistryIds \cup {"NotAMethod"}

AdjustmentMinutes == {k * 5 : k \in -MaxAdjK..MaxAdjK}

(* The adjustments arguments: None, {}, one entry for a prayer name or for *)
(* a name that is none, and entries for both fajr and imsak.               *)
AdjustmentArgs ==
    {<<>>, << <<>> >>}
    \cup {<< << <<p, m>> >> >> :
              p \in {PRAYER_NAMES[i] : i \in 1..Len(PRAYER_NAMES)} \cup {"jumuah"},
              m \in AdjustmentMinutes}
    \cup {<< << <<"fajr", m>>, <<"imsak", n>> >> >> :
              m \in AdjustmentMinutes, n \in AdjustmentMinutes}

(* A date and the longitude, near the date line, at which the solar noon   *)
(* of that date falls on 0:00 of the clock at timezone_offset 0.           *)
MidnightNoonDate == [year |-> 2024, month |-> 11, day |-> 3]

MidnightNoonLongitude ==
    (12 * HourMmin - EquationOfTime(JulianDate2(MidnightNoonDate))) \div 4

(* The calls of calculate_prayer_times: every method at the sample places  *)
(* without adjustments; three methods with the adjustments; and every      *)
(* registry method where the solar noon falls on 0:00, at the longitude on *)
(* the mdeg grid (below FALSE) and at the double a rounding step east of   *)
(* it, for which the noon is a double just below zero (below TRUE).        *)
CalculateArgs ==
    [op : {"calculate"}, latitude : Latitudes, longitude : Longitudes,
     date : Dates, method : MethodIds, tz : TimezoneOffsets,
     adjustments : {<<>>}, below : {FALSE}]
    \cup
    [op : {"calculate"}, latitude : {30000}, longitude : Longitudes,
     date : Dates, method : {"Egyptian", "UmmAlQura", "Jafari"}, tz : {0},
     adjustments : AdjustmentArgs, below : {FALSE}]
    \cup
    [op : {"calculate"}, latitude : Latitudes,
     longitude : {MidnightNoonLongitude}, date : {MidnightNoonDate},
     method : RegistryIds, tz : {0}, adjustments : {<<>>}, below : BOOLEAN]

InitOne(a) ==
    /\ methods = CALCULATION_METHODS
    /\ pc = <<"call">>
    /\ args = <<a>>
    /\ times = << <<>> >>
    /\ ret = <<Pending>>
    /\ WebIdle

(* One call of calculate_prayer_times.                                     *)
InitCalc == \E a \in CalculateArgs : InitOne(a)

NextCalc == \E c \in Callers : Calculate(c)

SpecCalc == InitCalc /\ [][NextCalc]_vars

MaxShiftK == 3

MaxNowSlack == 1

(* "HH:MM" of a minute of the day.                                         *)
ClockString(minute) ==
    ZeroPad(Decimal((minute % (24 * 60)) \div 60), 2) \o <<":">>
        \o ZeroPad(Decimal(minute % 60), 2)

(* fajr 05:00, sunrise 06:20, dhuhr 12:00, asr 15:30, maghrib 18:00,       *)
(* isha 19:30, in minutes.                                                 *)
SampleMinutes == <<300, 380, 720, 930, 1080, 1170>>

(* The sample day moved k times two and a half hours later, past midnight  *)
(* for the late prayers.                                                   *)
ShiftedTimes(k) ==
    [i \in 1..Len(NEXT_PRAYERS) |->
        <<NEXT_PRAYERS[i], ClockString(SampleMinutes[i] + k * 150)>>]

(* Values that are no HH:MM: None, "", "12", "1:2:3", "ab:cd", ":30".      *)
BadValues == <<None, <<>>, <<"1", "2">>, <<"1", ":", "2", ":", "3">>,
               <<"a", "b", ":", "c", "d">>, <<":", "3", "0">>>>

RECURSIVE DegradedFrom(_, _)
(* The sample day with, for each prayer i, what shape[i] says: 0 the       *)
(* sample time, 1 no such key, 2 a value that is no HH:MM.                 *)
DegradedFrom(shape, i) ==
    IF i > Len(NEXT_PRAYERS) THEN <<>>
    ELSE LET rest == DegradedFrom(shape, i + 1)
         IN  IF shape[i] = 0
             THEN <<<<NEXT_PRAYERS[i], ClockString(SampleMinutes[i])>>>> \o rest
             ELSE IF shape[i] = 1 THEN rest
             ELSE <<<<NEXT_PRAYERS[i], BadValues[i]>>>> \o rest

(* Parseable values outside HH 00..23, MM 00..59 and without zero padding. *)
OddTimes ==
    { [i \in 1..Len(NEXT_PRAYERS) |->
          <<NEXT_PRAYERS[i], IF i = k THEN odd ELSE ClockString(SampleMinutes[i])>>] :
      k \in 1..Len(NEXT_PRAYERS),
      odd \in {<<"2", "5", ":", "9", "9">>, <<"7", ":", "5">>,
               <<"-", "1", ":", "3", "0">>} }

PrayerTimesMaps ==
    {ShiftedTimes(k) : k \in 0..MaxShiftK}
    \cup {DegradedFrom(shape, 1) : shape \in [1..Len(NEXT_PRAYERS) -> 0..2]}
    \cup OddTimes

(* The clock readings: midnight, the last minute of the day, and the       *)
(* minutes at and around each sample time.                                 *)
Nows ==
    {0, 24 * 60 - 1}
    \cup {SampleMinutes[i] + d :
              i \in 1..Len(SampleMinutes), d \in -MaxNowSlack..MaxNowSlack}

(* One call of get_next_prayer.                                            *)
InitNext ==
    \E m \in PrayerTimesMaps :
        InitOne([op |-> "next", prayer_times |-> m, now |-> 0])

NextNext == \E c \in Callers : \E now \in Nows : NextPrayer(c, now)

SpecNext == InitNext /\ [][NextNext]_vars

(***************************************************************************)
(* Properties of get_next_prayer (under SpecNext).                         *)
(***************************************************************************)
NextDone(c) == pc[c] = "done" /\ args[c].op = "next"

(* All six prayers have a value in the map and it parses.                  *)
AllSixParse(prayer_times) ==
    \A i \in 1..Len(NEXT_PRAYERS) :
        /\ DictHas(prayer_times, NEXT_PRAYERS[i])
        /\ ParsesAsTime(DictGet(prayer_times, NEXT_PRAYERS[i]))

MapMinutes(prayer_times, i) == TotalMinutes(DictGet(prayer_times, NEXT_PRAYERS[i]))

(* The positions, in the fixed order, of the prayers later than now.       *)
LaterToday(prayer_times, now) ==
    {i \in 1..Len(NEXT_PRAYERS) : MapMinutes(prayer_times, i) > now}

(* C4: with all six parsing and a prayer later than now, the result is the *)
(* first such prayer in the fixed order, minutes_until is its minutes      *)
(* minus now, and the result holds tomorrow = false.                       *)
C4_NextPrayerToday ==
    \A c \in Callers :
        LET m == args[c].prayer_times
            later == LaterToday(m, args[c].now)
        IN  NextDone(c) /\ AllSixParse(m) /\ later # {}
            => LET first == CHOOSE i \in later : \A j \in later : i <= j
               IN  /\ ret[c].outcome = "returned"
                   /\ DictGet(ret[c].value, "prayer") = NEXT_PRAYERS[first]
                   /\ DictGet(ret[c].value, "minutes_until")
                          = MapMinutes(m, first) - args[c].now
                   /\ DictHas(ret[c].value, "tomorrow")
                   /\ DictGet(ret[c].value, "tomorrow") = FALSE

(* C5: with all six parsing and no prayer later than now, the result is    *)
(* fajr with tomorrow = true, the map's fajr string as time, and           *)
(* minutes_until = (1440 - now) + fajr's minutes.                          *)
C5_NextPrayerTomorrow ==
    \A c \in Callers :
        LET m == args[c].prayer_times
        IN  NextDone(c) /\ AllSixParse(m) /\ LaterToday(m, args[c].now) = {}
            => /\ ret[c].outcome = "returned"
               /\ DictGet(ret[c].value, "prayer") = "fajr"
               /\ DictHas(ret[c].value, "tomorrow")
               /\ DictGet(ret[c].value, "tomorrow") = TRUE
               /\ DictGet(ret[c].value, "time") = DictGet(m, "fajr")
               /\ DictGet(ret[c].value, "minutes_until")
                      = (1440 - args[c].now) + MapMinutes(m, 1)

(* C5 witness: the sample day at 20:00 gives fajr tomorrow in 540 minutes. *)
C5_Witness ==
    \E c \in Callers :
        /\ NextDone(c)
        /\ args[c].prayer_times = ShiftedTimes(0)
        /\ args[c].now > 1170
        /\ ret[c].outcome = "returned"
        /\ DictGet(ret[c].value, "prayer") = "fajr"
        /\ DictGet(ret[c].value, "minutes_until") = 1440 - args[c].now + 300

(* Some of the six prayers has a value in the map that parses.             *)
SomeParses(prayer_times) ==
    \E i \in 1..Len(NEXT_PRAYERS) :
        /\ DictHas(prayer_times, NEXT_PRAYERS[i])
        /\ ParsesAsTime(DictGet(prayer_times, NEXT_PRAYERS[i]))

(* C6: the call never raises; it returns a result when some prayer of the  *)
(* map parses and None exactly when the map is empty or none parses.       *)
C6_NoneOnlyWhenNothingParses ==
    \A c \in Callers :
        NextDone(c)
            => /\ ret[c].outcome # "raised"
               /\ SomeParses(args[c].prayer_times) <=> ret[c].outcome = "returned"
               /\ ~SomeParses(args[c].prayer_times) <=> ret[c].outcome = "none"

(* Whether every value of the map parses, with its hours in 0..23 and its  *)
(* minutes in 0..59.                                                       *)
ClockValues(prayer_times) ==
    \A i \in 1..Len(prayer_times) :
        LET time_str == prayer_times[i][2]
        IN  /\ ParsesAsTime(time_str)
            /\ ParseInt(Split(time_str, ":")[1]) \in 0..23
            /\ ParseInt(Split(time_str, ":")[2]) \in 0..59

(* C23: for a map whose values all parse with HH in 00..23 and MM in       *)
(* 00..59 and any current time, a returned result has minutes_until in     *)
(* 1..1440, remaining_minutes in 0..59 and                                 *)
(* hours_until * 60 + remaining_minutes = minutes_until.                   *)
C23_CountdownWithinOneDay ==
    \A c \in Callers :
        NextDone(c) /\ ClockValues(args[c].prayer_times)
                    /\ ret[c].outcome = "returned"
            => LET minutes_until == DictGet(ret[c].value, "minutes_until")
                   hours_until == DictGet(ret[c].value, "hours_until")
                   remaining_minutes == DictGet(ret[c].value, "remaining_minutes")
               IN  /\ minutes_until \in 1..1440
                   /\ remaining_minutes \in 0..59
                   /\ hours_until * 60 + remaining_minutes = minutes_until

(* C23 witness: a call made at the minute of fajr, with no prayer later in *)
(* the day, has returned fajr tomorrow in 1440 minutes, 24 hours and 0     *)
(* minutes.                                                                *)
C23_Witness ==
    \E c \in Callers :
        /\ NextDone(c) /\ ClockValues(args[c].prayer_times)
        /\ ret[c].outcome = "returned"
        /\ DictHas(ret[c].value, "tomorrow")
        /\ DictGet(ret[c].value, "minutes_until") = 1440
        /\ DictGet(ret[c].value, "hours_until") = 24
        /\ DictGet(ret[c].value, "remaining_minutes") = 0

MaxYears == 4

(* The first and the last year the router admits, and a run of years       *)
(* around a leap year.                                                     *)
Years == {2000, 2100} \cup {2020 + k : k \in 1..MaxYears}

MonthlyArgs ==
    [op : {"monthly"}, latitude : {30000}, longitude : {31000}, year : Years,
     month : 1..12, method : {"Egyptian"}]
    \cup
    [op : {"monthly"}, latitude : {30000}, longitude : {31000}, year : {2024},
     month : 1..12, method : {"NotAMethod"}]

(* One call of get_monthly_prayer_times.                                   *)
InitMonth == \E a \in MonthlyArgs : InitOne(a)

NextMonth == \E c \in Callers : Monthly(c)

SpecMonth == InitMonth /\ [][NextMonth]_vars

(***************************************************************************)
(* Properties of get_monthly_prayer_times (under SpecMonth).               *)
(***************************************************************************)
MonthDone(c) == pc[c] = "done" /\ args[c].op = "monthly"

FirstOfMonth(year, month) == [year |-> year, month |-> month, day |-> 1]

(* The days of a month on the calendar: from its first day to the first    *)
(* day of the next month, counted in Julian days.                          *)
CalendarDays(year, month) ==
    LET next == IF month = 12 THEN FirstOfMonth(year + 1, 1)
                ELSE FirstOfMonth(year, month + 1)
    IN  (JulianDate2(next) - JulianDate2(FirstOfMonth(year, month))) \div 2

(* The order of two ISO dates as strings.                                  *)
IsoBefore(a, b) ==
    \E i \in 1..Len(a) :
        /\ \A j \in 1..(i - 1) : a[j] = b[j]
        /\ a[i] # b[i]
        /\ DigitValue(a[i]) < DigitValue(b[i])

(* C7: for the years 2000..2100 the month is iterated over as many days as *)
(* it has on the calendar, and the list returned has one entry per day,    *)
(* entry k dated day k, with strictly increasing dates.                    *)
C7_OneEntryPerCalendarDay ==
    /\ \A year \in 2000..2100 : \A month \in 1..12 :
           DaysInMonth(year, month) = CalendarDays(year, month)
    /\ \A c \in Callers :
           MonthDone(c)
               => LET list == ret[c].value
                      year == args[c].year
                      month == args[c].month
                  IN  /\ Len(list) = CalendarDays(year, month)
                      /\ \A k \in 1..Len(list) :
                             list[k].date
                                 = IsoFormat([year |-> year, month |-> month,
                                              day |-> k])
                      /\ \A k \in 1..(Len(list) - 1) :
                             IsoBefore(list[k].date, list[k + 1].date)

(* C7 witness: February 2024 returned with 29 entries, the last dated the  *)
(* 29th.                                                                   *)
C7_Witness ==
    \E c \in Callers :
        /\ MonthDone(c)
        /\ args[c].year = 2024 /\ args[c].month = 2
        /\ Len(ret[c].value) = 29
        /\ ret[c].value[29].date
               = <<"2", "0", "2", "4", "-", "0", "2", "-", "2", "9">>

(* C15: called with a method id that is no key of the registry, the month  *)
(* fails before a day is computed: the call raises and returns no list,    *)
(* neither a partial one nor one computed with another method's            *)
(* parameters.                                                             *)
C15_MonthRejectsUnknownMethod ==
    \A c \in Callers :
        MonthDone(c) /\ ~DictHas(methods, args[c].method)
            => ret[c].outcome = "raised"

(***************************************************************************)
(* One call of _format_time.                                               *)
(***************************************************************************)
MaxHalfHours == 60

(* Decimal-hour values from -MaxHalfHours/2 h to MaxHalfHours/2 h: every   *)
(* half hour, and 40 seconds past it.                                      *)
TimeValues ==
    {h * (HourMmin \div 2) + (s * 1000) \div 60 :
         h \in -MaxHalfHours..MaxHalfHours, s \in {0, 40}}

(* The values above as they are, and the double just below zero.           *)
FormatArgs ==
    [op : {"format"}, time_value : TimeValues, below : {FALSE}]
    \cup [op : {"format"}, time_value : {0}, below : {TRUE}]

InitFormat == \E a \in FormatArgs : InitOne(a)

NextFormat == \E c \in Callers : Format(c)

SpecFormat == InitFormat /\ [][NextFormat]_vars

(***************************************************************************)
(* Properties of _format_time (under SpecFormat).                          *)
(***************************************************************************)
FormatDone(c) == pc[c] = "done" /\ args[c].op = "format"

(* C18: the value t is reduced modulo 24 h into [0, 24), so that HH is in  *)
(* 00..23; HH is the integer part and MM the rest in minutes rounded to    *)
(* the nearest minute (12 h 30 min 40 s gives 12:31), for every t,         *)
(* negative or of 24 h and more.                                           *)
C18_FormatRoundsToNearest ==
    \A c \in Callers :
        FormatDone(c)
            => /\ DigitsValue(SubSeq(ret[c].value, 1, 2)) \in 0..23
               /\ ~args[c].below
                      => LET t == args[c].time_value % DayMmin
                             hh == t \div HourMmin
                             mm == ((t % HourMmin) + 500) \div 1000
                         IN  ret[c].value
                                 = ZeroPad(Decimal(hh), 2) \o <<":">>
                                       \o ZeroPad(Decimal(mm), 2)

(***************************************************************************)
(* One call of _calculate_julian_date or of _equation_of_time.             *)
(***************************************************************************)
MaxJulianYears == 101

MaxEqtK == 1000

MaxTurnK == 12

(* The dates: every calendar date of the years 2000, 2001, ...  The Julian *)
(* dates: from 2000-01-01 on, 23.5 days apart, doubled.  The differences   *)
(* q - RA in mdeg: the quarter turns of MaxTurnK quarter turns either way, *)
(* and the values 1 mdeg to either side of each.                           *)
SunArgs ==
    [op : {"julian"},
     date : UNION {[year : {2000 + y}, month : {m},
                    day : 1..DaysInMonth(2000 + y, m)] :
                       y \in 0..(MaxJulianYears - 1), m \in 1..12}]
    \cup [op : {"eqt"},
          jd2 : {JulianDate2([year |-> 2000, month |-> 1, day |-> 1]) + 47 * k :
                     k \in 0..MaxEqtK}]
    \cup [op : {"reduce"},
          EqT : {k * 90000 + e : k \in -MaxTurnK..MaxTurnK, e \in -1..1}]

InitSun == \E a \in SunArgs : InitOne(a)

NextSun ==
    \E c \in Callers :
        \/ JulianDate(c)
        \/ EquationOfTimeCall(c)
        \/ EquationOfTimeReduce(c)

SpecSun == InitSun /\ [][NextSun]_vars

(***************************************************************************)
(* Properties of the Julian date and of the equation of time (under        *)
(* SpecSun).                                                               *)
(***************************************************************************)
SunDone(c, op) == pc[c] = "done" /\ args[c].op = op

(* Whether a value in mmin lies in (-720, 720] minutes.                    *)
InHalfDay(eqt) == -720000 < eqt /\ eqt <= 720000

(* C21: for every Julian date the equation of time returned lies in        *)
(* (-720, 720] minutes; the difference q - RA is taken into (-180, 180]    *)
(* degrees by whole turns and then multiplied by 4, so that 180 degrees    *)
(* gives 720 minutes and the value just above 180 degrees the value just   *)
(* above -720 minutes.                                                     *)
C21_EqtWithinHalfDay ==
    \A c \in Callers :
        /\ SunDone(c, "eqt") => InHalfDay(ret[c].value)
        /\ SunDone(c, "reduce")
               => /\ InHalfDay(ret[c].value)
                  /\ (ret[c].value - 4 * args[c].EqT) % (4 * 360000) = 0
                  /\ args[c].EqT = 180000 => ret[c].value = 720000
                  /\ args[c].EqT = 180001 => ret[c].value = 4 - 720000

(* C21 witness: the difference of 180 degrees has been reduced and         *)
(* returned as 720 minutes.                                                *)
C21_Witness ==
    \E c \in Callers :
        /\ SunDone(c, "reduce")
        /\ args[c].EqT = 180000
        /\ ret[c].value = 720000

(* The calendar day after a date.                                          *)
NextDate(date) ==
    IF date.day < DaysInMonth(date.year, date.month)
    THEN [date EXCEPT !.day = date.day + 1]
    ELSE IF date.month < 12
    THEN [year |-> date.year, month |-> date.month + 1, day |-> 1]
    ELSE [year |-> date.year + 1, month |-> 1, day |-> 1]

(* C24: for two consecutive calendar dates of the years 2000..2100 the     *)
(* Julian date of the second is that of the first plus exactly 1, across   *)
(* month ends, year ends and 28/29 February included.                      *)
C24_JulianDateStepsByOne ==
    \A c \in Callers :
        SunDone(c, "julian") /\ NextDate(args[c].date).year <= 2100
            => JulianDate2(NextDate(args[c].date)) = ret[c].value + 2

(* C24 witness: the Julian date of 2100-02-28, the eve of 1 March in a     *)
(* century year that has no 29 February, has been computed.                *)
C24_Witness ==
    \E c \in Callers :
        /\ SunDone(c, "julian")
        /\ args[c].date = [year |-> 2100, month |-> 2, day |-> 28]
        /\ ret[c].value = 2 * 2488128 - 1

(***************************************************************************)
(* One call of get_qibla_direction.                                        *)
(***************************************************************************)
MaxNearK == 2

(* The sample latitudes, poles included, and the Kaaba's.                  *)
QiblaLatitudes == Latitudes \cup {KAABA_LAT}

(* The sample longitudes and those within MaxNearK mdeg of the Kaaba's     *)
(* meridian.                                                               *)
QiblaLongitudes == Longitudes \cup {KAABA_LON + k : k \in -MaxNearK..MaxNearK}

QiblaArgs ==
    [op : {"qibla"}, latitude : QiblaLatitudes, longitude : QiblaLongitudes]

InitQibla == \E a \in QiblaArgs : InitOne(a)

NextQibla == \E c \in Callers : Qibla(c)

SpecQibla == InitQibla /\ [][NextQibla]_vars

(***************************************************************************)
(* Properties of get_qibla_direction (under SpecQibla).                    *)
(***************************************************************************)
QiblaDone(c) == pc[c] = "done" /\ args[c].op = "qibla"

(* C12: the returned bearing, rounded to two decimals, is at least 0 and   *)
(* below 360 (never 360.00), and the returned distance is at least 0.      *)
C12_BearingBelow360 ==
    \A c \in Callers :
        QiblaDone(c)
            => /\ ret[c].value.qibla_direction >= 0
               /\ ret[c].value.qibla_direction < 36000
               /\ ret[c].value.distance_km >= 0

(* C13: called with the Kaaba's own coordinates, the call returns the      *)
(* distance 0 and the bearing 0.                                           *)
C13_ZeroAtKaaba ==
    \A c \in Callers :
        /\ QiblaDone(c)
        /\ args[c].latitude = KAABA_LAT
        /\ args[c].longitude = KAABA_LON
        => /\ ret[c].value.distance_km = 0
           /\ ret[c].value.qibla_direction = 0

(* C13 witness: a call at the Kaaba's coordinates has returned, and a call *)
(* one mdeg east of it on the same parallel returned the bearing 270.      *)
C13_Witness ==
    \E c \in Callers :
        /\ QiblaDone(c)
        /\ args[c].latitude = KAABA_LAT
        /\ args[c].longitude = KAABA_LON
        /\ ret[c].outcome = "returned"
        /\ ret[c].value.kaaba_location
               = [latitude |-> args[c].latitude, longitude |-> args[c].longitude]
        /\ GetQiblaDirection(KAABA_LAT, KAABA_LON + 1).qibla_direction = 27000

(* C20: called with a location at a pole (latitude 90 or -90, any          *)
(* longitude), the call returns the bearing 0.                             *)
C20_ZeroBearingAtPoles ==
    \A c \in Callers :
        QiblaDone(c) /\ Abs(args[c].latitude) = 90000
            => ret[c].value.qibla_direction = 0

NumCallers == 2

(* The calls that run side by side: calculate for two methods, with and    *)
(* without an adjustment, next prayer on the sample day, one month and one *)
(* Qibla direction.                                                        *)
ConcurrentArgs ==
    {[op |-> "calculate", latitude |-> 30000, longitude |-> 0,
      date |-> DateOf(1), method |-> "Egyptian", tz |-> 0,
      adjustments |-> <<>>, below |-> FALSE],
     [op |-> "calculate", latitude |-> 30000, longitude |-> 0,
      date |-> DateOf(1), method |-> "Egyptian", tz |-> 0,
      adjustments |-> << << <<"fajr", 5>> >> >>, below |-> FALSE],
     [op |-> "calculate", latitude |-> 30000, longitude |-> 0,
      date |-> DateOf(1), method |-> "Jafari", tz |-> 0,
      adjustments |-> <<>>, below |-> FALSE],
     [op |-> "next", prayer_times |-> ShiftedTimes(0), now |-> 0],
     [op |-> "monthly", latitude |-> 30000, longitude |-> 0, year |-> 2024,
      month |-> 2, method |-> "Egyptian"],
     [op |-> "qibla", latitude |-> 30000, longitude |-> 0]}

(* Calls in flight together, calculate_prayer_times interleaved at its     *)
(* adjustment loop.                                                        *)
InitConc ==
    /\ methods = CALCULATION_METHODS
    /\ pc = [c \in 1..NumCallers |-> "call"]
    /\ args \in [1..NumCallers -> ConcurrentArgs]
    /\ times = [c \in 1..NumCallers |-> <<>>]
    /\ ret = [c \in 1..NumCallers |-> Pending]
    /\ WebIdle

NextConc ==
    \E c \in Callers :
        \/ CalculateCompute(c)
        \/ CalculateReturn(c)
        \/ \E now \in {780, 1200} : NextPrayer(c, now)
        \/ Monthly(c)
        \/ Qibla(c)

SpecConc == InitConc /\ [][NextConc]_vars

(***************************************************************************)
(* Properties of calculate_prayer_times (under SpecCalc).                  *)
(***************************************************************************)
CalcDone(c) == pc[c] = "done" /\ args[c].op = "calculate"

(* A returned HH:MM value read as minutes since midnight.                  *)
ReturnedMinutes(c, prayer) == TotalMinutes(DictGet(ret[c].value.times, prayer))

(* The adjustments entry of a prayer, 0 when there is none.                *)
AdjustmentFor(c, prayer) == DictGetDefault(AdjustmentsOf(args[c]), prayer, 0)

(* C1: a call with a method id that is no key of the registry raises (an   *)
(* UnknownMethod error) and computes no time.                              *)
C1_UnknownMethodRaises ==
    \A c \in Callers :
        CalcDone(c) /\ ~DictHas(methods, args[c].method)
            => ret[c].outcome = "raised" /\ times[c] = <<>>

(* C2: at |latitude| < 60 degrees, without adjustments, for every registry *)
(* method, longitude and timezone offset, the returned times are in the    *)
(* order fajr < sunrise < dhuhr < asr < maghrib < isha as minutes since    *)
(* midnight.                                                               *)
C2_ChronologicalOrder ==
    \A c \in Callers :
        /\ CalcDone(c)
        /\ DictHas(methods, args[c].method)
        /\ Abs(args[c].latitude) < 60000
        /\ AdjustmentsOf(args[c]) = <<>>
        => \A i \in 1..(Len(NEXT_PRAYERS) - 1) :
               ReturnedMinutes(c, NEXT_PRAYERS[i])
                   < ReturnedMinutes(c, NEXT_PRAYERS[i + 1])

NoonOf(c) ==
    SolarNoon(args[c].longitude, EquationOfTime(JulianDate2(args[c].date)),
              args[c].tz)

(* C8, as claimed: the returned dhuhr is the solar noon that places the    *)
(* other prayers, for every method and every adjustments map.              *)
C8_DhuhrIsSolarNoon ==
    \A c \in Callers :
        CalcDone(c)
            => DictGet(ret[c].value.times, "dhuhr") = FormatTime(NoonOf(c), args[c].below)

(* C8, amended: the returned dhuhr is that solar noon shifted by the       *)
(* adjustments entry for dhuhr, if any; the method does not enter.         *)
C8_DhuhrIsAdjustedSolarNoon ==
    \A c \in Callers :
        CalcDone(c)
            => DictGet(ret[c].value.times, "dhuhr")
               = FormatTime(NoonOf(c) + 1000 * AdjustmentFor(c, "dhuhr"),
                            args[c].below)

(* C8 witness: a Jafari result at a longitude off the zone meridian whose  *)
(* dhuhr is the formatted solar noon.                                      *)
C8_Witness ==
    \E c \in Callers :
        /\ CalcDone(c)
        /\ args[c].method = "Jafari"
        /\ args[c].longitude # 0
        /\ AdjustmentFor(c, "dhuhr") = 0
        /\ DictGet(ret[c].value.times, "dhuhr") = FormatTime(NoonOf(c), args[c].below)

(* A well-formed HH:MM: two digits, a colon, two digits, HH in 00..23 and   *)
(* MM in 00..59.                                                           *)
WellFormedTime(s) ==
    /\ Len(s) = 5
    /\ s[3] = ":"
    /\ \A i \in {1, 2, 4, 5} : s[i] \in DigitChars
    /\ DigitsValue(SubSeq(s, 1, 2)) \in 0..23
    /\ DigitsValue(SubSeq(s, 4, 5)) \in 0..59

(* C11: for every latitude (the poles and values past them included),      *)
(* longitude, date and registry method the call returns and raises         *)
(* nothing; where the sun does not reach the zenith angle of sunrise the   *)
(* acos argument is clamped, so that the hour angle is 0 or 12 h; and the  *)
(* result holds the seven times, each a well-formed HH:MM with HH in       *)
(* 00..23 and MM in 00..59.                                                *)
C11_AlwaysWellFormed ==
    \A c \in Callers :
        CalcDone(c) /\ DictHas(methods, args[c].method)
            => /\ ret[c].outcome = "returned"
               /\ Abs(args[c].latitude) = 90000
                      => DictGet(times[c], "dhuhr")
                             - DictGet(times[c], "sunrise")
                         \in {0, 12 * HourMmin}
               /\ {ret[c].value.times[i][1] :
                       i \in 1..Len(ret[c].value.times)}
                  = {PRAYER_NAMES[i] : i \in 1..Len(PRAYER_NAMES)}
               /\ Len(ret[c].value.times) = Len(PRAYER_NAMES)
               /\ \A i \in 1..Len(ret[c].value.times) :
                      WellFormedTime(ret[c].value.times[i][2])

(* C10: the times mapping of a result holds exactly the seven prayer names *)
(* in the order imsak, fajr, sunrise, dhuhr, asr, maghrib, isha.           *)
C10_CanonicalOrder ==
    \A c \in Callers :
        CalcDone(c) /\ ret[c].outcome = "returned"
            => DictKeys(ret[c].value.times) = PRAYER_NAMES

(* C16: for a method that defines maghrib_angle, in a call without         *)
(* adjustments, the maghrib value before formatting is the solar noon plus *)
(* the hour angle of the zenith angle 90 + maghrib_angle, and so is never  *)
(* earlier than dhuhr.                                                     *)
C16_MaghribAngleAfterNoon ==
    \A c \in Callers :
        /\ CalcDone(c)
        /\ DictHas(methods, args[c].method)
        /\ DictHas(DictGet(methods, args[c].method), "maghrib_angle")
        /\ AdjustmentsOf(args[c]) = <<>>
        => /\ DictGet(times[c], "maghrib") >= DictGet(times[c], "dhuhr")
           /\ DictGet(times[c], "maghrib")
                  = NoonOf(c)
                    + HourAngle(args[c].latitude,
                                SunDeclination(JulianDate2(args[c].date)),
                                90000 + DictGet(DictGet(methods, args[c].method),
                                                "maghrib_angle"))

UnadjustedTimes(c) ==
    FormatTimes(ComputeTimes(methods, args[c].latitude, args[c].longitude,
                             args[c].date, args[c].method, args[c].tz),
                args[c].below)

C9_Deterministic ==
    /\ methods = CALCULATION_METHODS
    /\ \A c \in Callers :
           CalcDone(c)
               => ret[c] = Returned(PrayerTimesResult(
                               args[c].latitude, args[c].longitude,
                               args[c].date, args[c].method,
                               AdjustedTimes(CALCULATION_METHODS,
                                             args[c].latitude,
                                             args[c].longitude, args[c].date,
                                             args[c].method, args[c].tz,
                                             args[c].adjustments),
                               args[c].below))
    /\ \A c \in Callers : \A d \in Callers :
           CalcDone(c) /\ CalcDone(d) /\ args[d].op = args[c].op
               /\ args[c] = args[d]
               => ret[c] = ret[d]

(* C14: at every moment, whichever operations have run, the registry holds *)
(* exactly the ten ids; every entry has a fajr angle and exactly one of    *)
(* isha angle and isha interval; maghrib_angle is present for Jafari only; *)
(* and the registry is the one constructed.                                *)
C14_RegistryAsSpecified ==
    /\ Len(methods) = 10
    /\ {methods[i][1] : i \in 1..Len(methods)}
           = {"MuslimWorldLeague", "Egyptian", "UmmAlQura", "Karachi",
              "Jafari", "ISNA", "Turkey", "Kuwait", "Qatar", "Singapore"}
    /\ \A i \in 1..Len(methods) :
           /\ DictHas(methods[i][2], "fajr_angle")
           /\ DictHas(methods[i][2], "isha_angle")
                  # DictHas(methods[i][2], "isha_interval")
           /\ DictHas(methods[i][2], "maghrib_angle")
                  <=> methods[i][1] = "Jafari"
    /\ methods = CALCULATION_METHODS

(* C14 witness: two operations of different kinds have run to their end,   *)
(* one of them a calculate for a method without maghrib_angle.             *)
C14_Witness ==
    \E c \in Callers : \E d \in Callers :
        /\ CalcDone(c)
        /\ ~DictHas(DictGet(methods, args[c].method), "maghrib_angle")
        /\ pc[d] = "done"
        /\ args[d].op # "calculate"

(* C9 witness: a calculate that returned after another call computed its   *)
(* times for another method in between.                                    *)
C9_Witness ==
    \E c \in Callers : \E d \in Callers :
        /\ CalcDone(c)
        /\ args[d].op = "calculate"
        /\ args[d].method # args[c].method
        /\ pc[d] = "computed"
        /\ DictGet(ret[c].value.times, "fajr")
               = FormatTime(DictGet(times[c], "fajr"), args[c].below)
(***************************************************************************)
(* A month and one of its days: get_monthly_prayer_times for a month next  *)
(* to calculate_prayer_times for a day of that month at the same place,    *)
(* with the same method, timezone_offset 0 and no adjustments.             *)
(***************************************************************************)

(* The months: February without and with a 29th, a month of 30 days and    *)
(* one of 31.                                                              *)
InitMonthDay ==
    \E ym \in {[year |-> 2023, month |-> 2], [year |-> 2024, month |-> 2],
               [year |-> 2024, month |-> 4], [year |-> 2024, month |-> 12]} :
      \E method \in {"Egyptian", "Jafari", "NotAMethod"} :
        \E day \in 1..DaysInMonth(ym.year, ym.month) :
            /\ methods = CALCULATION_METHODS
            /\ pc = <<"call", "call">>
            /\ args = <<[op |-> "monthly", latitude |-> 30000,
                         longitude |-> 31000, year |-> ym.year,
                         month |-> ym.month, method |-> method],
                        [op |-> "calculate", latitude |-> 30000,
                         longitude |-> 31000,
                         date |-> [year |-> ym.year, month |-> ym.month,
                                   day |-> day],
                         method |-> method, tz |-> 0, adjustments |-> <<>>,
                         below |-> FALSE]>>
            /\ times = << <<>>, <<>> >>
            /\ ret = <<Pending, Pending>>
            /\ WebIdle

NextMonthDay == \E c \in Callers : Monthly(c) \/ Calculate(c)

SpecMonthDay == InitMonthDay /\ [][NextMonthDay]_vars

(* C22: the list of a month has one entry per day of the month, and entry  *)
(* k (from 1) is the result calculate_prayer_times returns for day k of    *)
(* that month at the same latitude, longitude and method, with             *)
(* timezone_offset 0 and no adjustments.                                   *)
C22_MonthEntryIsDayResult ==
    \A m \in Callers : \A d \in Callers :
        MonthDone(m) /\ CalcDone(d)
            => /\ Len(ret[m].value)
                      = DaysInMonth(args[m].year, args[m].month)
               /\ ret[m].value[args[d].date.day] = ret[d].value

(* C22 witness: February 2024 and its 29th day have both been computed,    *)
(* and entry 29 of the month is dated 2024-02-29.                          *)
C22_Witness ==
    \E m \in Callers : \E d \in Callers :
        /\ MonthDone(m) /\ CalcDone(d)
        /\ args[d].date = [year |-> 2024, month |-> 2, day |-> 29]
        /\ ret[m].value[29].date = IsoFormat(args[d].date)

(***************************************************************************)
(* One call of get_prayer_times_from_api.                                  *)
(***************************************************************************)

(* What client.get can meet: a body with code 200 and timings (those of    *)
(* the sample day as Al Adhan sends them), complete or without Imsak; a    *)
(* timeout; a connection error; an error status; a redirect; a body that   *)
(* is no JSON; a body with another code; a body without data.timings.      *)
ApiResponses ==
    LET Response(transport, status, json, code, has_timings, timings) ==
            [transport |-> transport, status |-> status, json |-> json,
             code |-> code, has_timings |-> has_timings, timings |-> timings]
        timings ==
            [i \in 1..Len(TIMING_KEYS) |->
                <<TIMING_KEYS[i][2],
                  IF i = 1 THEN ClockString(SampleMinutes[1] - 10)
                  ELSE ClockString(SampleMinutes[i - 1])>>]
    IN  {Response("ok", 200, TRUE, 200, TRUE, timings),
         Response("ok", 200, TRUE, 200, TRUE, Tail(timings)),
         Response("timeout", 0, FALSE, 0, FALSE, <<>>),
         Response("connect_error", 0, FALSE, 0, FALSE, <<>>),
         Response("ok", 500, FALSE, 0, FALSE, <<>>),
         Response("ok", 301, FALSE, 0, FALSE, <<>>),
         Response("ok", 200, FALSE, 0, FALSE, <<>>),
         Response("ok", 200, TRUE, 400, FALSE, <<>>),
         Response("ok", 200, TRUE, 200, FALSE, <<>>)}

(* The calls: every method id at two places on one date, and the same      *)
(* with a latitude that is NaN.                                            *)
InitApi ==
    \E a \in [op : {"api"}, latitude : {0, 30000}, longitude : {31000},
              nan : BOOLEAN, date : {DateOf(1)}, method : MethodIds] :
        InitOne(a)

NextApi ==
    \E c \in Callers :
        \/ ApiSend(c)
        \/ \E response \in ApiResponses : ApiReceive(c, response)

SpecApi == InitApi /\ [][NextApi]_vars

(***************************************************************************)
(* Properties of get_prayer_times_from_api (under SpecApi).                *)
(***************************************************************************)
ApiDone(c) == pc[c] = "done" /\ args[c].op = "api"

(* Whether a result came from the API.                                     *)
FromApi(result) == "source" \in DOMAIN result

(* C25: the method field of a result names the method used: in a result of *)
(* calculate_prayer_times, for a registry id, the times are those of the   *)
(* parameters the registry holds under that name; in a result of the API,  *)
(* for each of the ten registry ids, the method code sent in the request   *)
(* is the Al Adhan code of that name.                                      *)
C25_MethodFieldNamesMethodUsed ==
    \A c \in Callers :
        ApiDone(c) /\ ret[c].outcome = "returned"
                   /\ DictHas(methods, args[c].method)
            => LET result == ret[c].value
               IN  /\ result.method = args[c].method
                   /\ FromApi(result)
                          => /\ DictHas(METHOD_MAP, result.method)
                             /\ http[c][Len(http[c])].method
                                    = DictGet(METHOD_MAP, result.method)
                   /\ ~FromApi(result)
                          => result.times
                                 = FormatTimes(
                                       TimesFrom(
                                           DictGet(methods, result.method),
                                           args[c].latitude, args[c].longitude,
                                           0,
                                           SunDeclination(JulianDate2(args[c].date)),
                                           EquationOfTime(JulianDate2(args[c].date))),
                                       FALSE)

(* C26: the call never raises and sends at most one request; met with a    *)
(* body of code 200 it returns the timings of the API, and met with an     *)
(* HTTP error, a timeout, another code or a malformed body it returns what *)
(* calculate_prayer_times returns for the same latitude, longitude, date   *)
(* and method; the retry wrapper never runs a second attempt.              *)
C26_ApiNeverRaisesNorRetries ==
    \A c \in Callers :
        args[c].op = "api"
            => /\ Len(http[c]) <= 1
               /\ ret[c].outcome # "raised"
               /\ pc[c] = "done"
                      => /\ ret[c].outcome = "returned"
                         /\ \/ FromApi(ret[c].value)
                            \/ ret[c]
                                   = LocalCalculation(methods, args[c].latitude,
                                                      args[c].longitude, FALSE,
                                                      args[c].date,
                                                      args[c].method)

(***************************************************************************)
(* Calls of InMemoryRateLimiter in flight together, with the clock moving. *)
(***************************************************************************)
NumLimiterCalls == 4

MaxLimit == 2

LimiterWindow == 3

MaxClock == 4

(* All calls but the last are is_allowed for one key; the last is          *)
(* is_allowed for that key or for another, or reset of that key.  All have *)
(* the same max_requests and window_seconds.                               *)
InitLimiter ==
    \E max_requests \in 1..MaxLimit :
      \E last \in {[op |-> "is_allowed", key |-> "ip:10.0.0.1"],
                   [op |-> "is_allowed", key |-> "ip:10.0.0.2"],
                   [op |-> "reset", key |-> "ip:10.0.0.1"]} :
        /\ methods = CALCULATION_METHODS
        /\ pc = [c \in 1..NumLimiterCalls |-> "call"]
        /\ args = [c \in 1..NumLimiterCalls |->
                      [op             |-> IF c < NumLimiterCalls
                                          THEN "is_allowed" ELSE last.op,
                       key            |-> IF c < NumLimiterCalls
                                          THEN "ip:10.0.0.1" ELSE last.key,
                       max_requests   |-> max_requests,
                       window_seconds |-> LimiterWindow,
                       current_time   |-> 0]]
        /\ times = [c \in 1..NumLimiterCalls |-> <<>>]
        /\ ret = [c \in 1..NumLimiterCalls |-> Pending]
        /\ WebIdle

(* The calls that are alike are numbered in the order they are entered.    *)
NextLimiter ==
    \/ Tick(1, MaxClock)
    \/ \E c \in Callers :
           /\ c < NumLimiterCalls => \A d \in 1..(c - 1) : pc[d] # "call"
           /\ ReadClock(c)
    \/ \E c \in Callers : IsAllowed(c) \/ Reset(c)

SpecLimiter == InitLimiter /\ [][NextLimiter]_vars

(***************************************************************************)
(* Properties of InMemoryRateLimiter (under SpecLimiter).                  *)
(***************************************************************************)

(* A call of is_allowed that returned True.                                *)
Accepted(c) ==
    pc[c] = "done" /\ args[c].op = "is_allowed" /\ ret[c].value = TRUE

(* C27: with every call an is_allowed for one key, with the same           *)
(* max_requests and window_seconds, however the calls interleave, no       *)
(* interval of window_seconds (from a time t up to, not including,         *)
(* t + window_seconds) holds the times of more than max_requests accepted  *)
(* calls.                                                                  *)
C27_AtMostMaxPerWindow ==
    (\A c \in Callers : \A d \in Callers :
         args[c].op = "is_allowed" /\ args[c].key = args[d].key)
        => \A c \in Callers :
               Accepted(c)
                   => Cardinality(
                          {d \in Callers :
                               /\ Accepted(d)
                               /\ args[d].current_time >= args[c].current_time
                               /\ args[d].current_time
                                      < args[c].current_time
                                            + args[c].window_seconds})
                          <= args[c].max_requests

(* The list of a key, empty when the key is not there.                     *)
RequestsOf(reqs, key) == DictGetDefault(reqs, key, <<>>)

Minimum(list) == CHOOSE t \in {list[i] : i \in 1..Len(list)} :
                     \A i \in 1..Len(list) : t <= list[i]

(* C28: a call of is_allowed leaves the lists of the other keys as they    *)
(* are; one that returns False records no time (the list of its key gets   *)
(* no longer and holds nothing new); one made when the oldest time in the  *)
(* list of its key is more than window_seconds old returns True; and       *)
(* reset(key) removes that key and leaves the others.                      *)
C28_RejectionLeavesNoTrace ==
    [][\A c \in Callers :
         LET key == args[c].key
             old == RequestsOf(requests, key)
             new == RequestsOf(requests', key)
             OthersKept ==
                 \A item \in {requests[i] : i \in 1..Len(requests)}
                            \cup {requests'[i] : i \in 1..Len(requests')} :
                     item[1] # key
                         => /\ DictHas(requests, item[1])
                            /\ DictHas(requests', item[1])
                            /\ RequestsOf(requests', item[1])
                                   = RequestsOf(requests, item[1])
         IN  /\ pc[c] = "locking" /\ pc'[c] = "done"
                    => /\ OthersKept
                       /\ ret'[c].value = FALSE
                              => /\ Len(new) <= Len(old)
                                 /\ \A i \in 1..Len(new) :
                                        \E j \in 1..Len(old) : new[i] = old[j]
                       /\ old # <<>> /\ args[c].max_requests >= 1
                                     /\ args[c].current_time - Minimum(old)
                                            > args[c].window_seconds
                              => ret'[c].value = TRUE
             /\ pc[c] = "call" /\ args[c].op = "reset" /\ pc'[c] = "done"
                    => /\ OthersKept
                       /\ ~DictHas(requests', key)]_vars

(* C28 witness: with max_requests 1, a call was accepted, two calls for    *)
(* the same key were rejected within the window, and a call made more than *)
(* window_seconds after the accepted one was accepted.                     *)
C28_Witness ==
    \E a \in Callers : \E r1 \in Callers : \E r2 \in Callers :
      \E b \in Callers :
        /\ r1 # r2
        /\ \A c \in {a, r1, r2, b} :
               /\ pc[c] = "done" /\ args[c].op = "is_allowed"
               /\ args[c].key = args[a].key /\ args[c].max_requests = 1
        /\ ret[a].value = TRUE /\ ret[b].value = TRUE
        /\ ret[r1].value = FALSE /\ ret[r2].value = FALSE
        /\ args[r1].current_time >= args[a].current_time
        /\ args[r2].current_time >= args[a].current_time
        /\ args[b].current_time
               > args[a].current_time + args[a].window_seconds
        /\ RequestsOf(requests, args[a].key) = <<args[b].current_time>>

(***************************************************************************)
(* One client sending requests through RateLimitingMiddleware.             *)
(***************************************************************************)
MaxAccepted == 31

MaxMiddlewareClock == 60

(* The middleware as constructed, no request received.                     *)
InitMiddleware ==
    /\ methods = CALCULATION_METHODS
    /\ pc = <<"call">>
    /\ args = <<[op |-> "dispatch", client_ip |-> "10.0.0.1", path |-> <<>>,
                 current_time |-> 0]>>
    /\ times = <<<<>>>>
    /\ ret = <<Pending>>
    /\ WebIdle

(* How many requests were let through.                                     *)
NumAccepted ==
    LET RECURSIVE Total(_)
        Total(i) == IF i = 0 THEN 0 ELSE Len(accepted[i][2]) + Total(i - 1)
    IN  Total(Len(accepted))

(* GET /health and GET /api/quran/random from the client, in any order,    *)
(* and the clock moving on by the length of a window.                      *)
NextMiddleware ==
    \/ Tick(RATE_LIMIT_WINDOW, MaxMiddlewareClock)
    \/ /\ NumAccepted < MaxAccepted
       /\ \E path \in {<<"/", "h", "e", "a", "l", "t", "h">>,
                        <<"/", "a", "p", "i", "/", "q", "u", "r", "a", "n",
                          "/", "r", "a", "n", "d", "o", "m">>} :
              Dispatch(1, [client_ip |-> "10.0.0.1", path |-> path])

SpecMiddleware == InitMiddleware /\ [][NextMiddleware]_vars

(***************************************************************************)
(* Properties of RateLimitingMiddleware (under SpecMiddleware).            *)
(***************************************************************************)

(* The pattern of endpoint_limits applied to a path, <<>> for the default. *)
PatternOf(path) ==
    LET matching == {i \in 1..Len(ENDPOINT_LIMITS) :
                         ReMatch(ENDPOINT_LIMITS[i][1], path)}
    IN  IF matching = {}
        THEN <<>>
        ELSE ENDPOINT_LIMITS[CHOOSE i \in matching :
                                 \A j \in matching : i <= j][1]

(* How many requests of the client to paths of the pattern were let        *)
(* through later than the time given.                                      *)
RECURSIVE AcceptedSince(_, _, _, _)
AcceptedSince(i, client_ip, pattern, cutoff_time) ==
    IF i = 0 THEN 0
    ELSE AcceptedSince(i - 1, client_ip, pattern, cutoff_time)
         + IF /\ accepted[i][1][1] = client_ip
              /\ PatternOf(accepted[i][1][2]) = pattern
           THEN Len(SelectSeq(accepted[i][2], LAMBDA t : t > cutoff_time))
           ELSE 0

(* C29: a request answered 429 comes from a client that, within the window *)
(* of the pattern its path falls under, already had at least that          *)
(* pattern's number of requests let through on paths of the same pattern.  *)
C29_RejectedOnlyOverOwnQuota ==
    \A c \in Callers :
        ret[c] = Raised("429")
            => AcceptedSince(Len(accepted), args[c].client_ip,
                             PatternOf(args[c].path),
                             args[c].current_time
                                 - GetLimitConfig(args[c]).window)
                   >= GetLimitConfig(args[c]).requests

(***************************************************************************)
(* One client sending requests through AdvancedRateLimitingMiddleware: a   *)
(* burst, a pause one second short of the block, then second by second.    *)
(***************************************************************************)
MaxAdvancedClock == 300

NextAdvanced ==
    \/ Tick(BLOCK_SECONDS - 1, MaxAdvancedClock)
    \/ clock > 0 /\ Tick(1, MaxAdvancedClock)
    \/ AdvancedDispatch(1, [client_ip |-> "10.0.0.1", path |-> <<"/">>])

SpecAdvanced == InitMiddleware /\ [][NextAdvanced]_vars

(***************************************************************************)
(* Properties of AdvancedRateLimitingMiddleware (under SpecAdvanced).      *)
(***************************************************************************)

(* C30: with the default limits, in every step that handles a request of a *)
(* client: a rejection of a client that is not blocked sets the block to   *)
(* end BLOCK_SECONDS after the request; while a block has not run out the  *)
(* request is answered 429 and neither the block nor the list of request   *)
(* times changes; when the block has run out the request is let through    *)
(* and the block removed; and as long as a block is there, every request   *)
(* handled since it was set was answered 429.                              *)
C30_BlockedForFiveMinutes ==
    [][\A c \in Callers :
         clock' = clock
             => LET client_ip == args'[c].client_ip
                    was_blocked == DictHas(blocked_ips, client_ip)
                    is_blocked == DictHas(blocked_ips', client_ip)
                IN  /\ ~was_blocked /\ ret'[c] = Raised("429")
                           => /\ is_blocked
                              /\ DictGet(blocked_ips', client_ip)
                                     = clock + BLOCK_SECONDS
                    /\ was_blocked
                           => IF clock < DictGet(blocked_ips, client_ip)
                              THEN /\ ret'[c] = Raised("429")
                                   /\ blocked_ips' = blocked_ips
                                   /\ request_counts' = request_counts
                              ELSE /\ ret'[c] = Returned("response")
                                   /\ ~is_blocked
                    /\ is_blocked
                           => /\ ret'[c] = Raised("429")
                              /\ args'[c].current_time
                                     < DictGet(blocked_ips', client_ip)]_vars

(* C30 witness: the client was blocked at time 0 by its 101st request, and *)
(* its request one second before the end of the block has just been       *)
(* answered 429, the block and the hundred request times being as before.  *)
C30_Witness ==
    /\ clock = BLOCK_SECONDS - 1
    /\ ret[1] = Raised("429")
    /\ args[1].current_time = BLOCK_SECONDS - 1
    /\ blocked_ips = <<<<"10.0.0.1", BLOCK_SECONDS>>>>
    /\ request_counts
           = <<<<"10.0.0.1", [i \in 1..RATE_LIMIT_REQUESTS |-> 0]>>>>

=============================================================================
